---- MODULE Spec2Model ----
(***************************************************************************)
(* Model of the archopinion command-line workflow:                         *)
(*   - GeminiClient.analyze: the bounded retry loop around the inference   *)
(*     call, with the extraction of the JSON payload from the response     *)
(*     text (src/gemini_client.py);                                        *)
(*   - GeminiClient.upload_file / cleanup_files (src/gemini_client.py);    *)
(*   - ArchopinionCLI.get_documents and ArchopinionCLI.run (src/cli.py).   *)
(* One action is one step of the sequential program: a loop iteration, a   *)
(* prompt, a remote call or an exception handler.  The remote service and  *)
(* the user are the only sources of nondeterminism.                        *)
(***************************************************************************)
EXTENDS Integers, Sequences, FiniteSets, TLC

\* ------------------------------------------------------------------ bounds
\* Largest attempt cap (self.max_retries) the model explores; the default is 3.
MaxRetriesCap == 3
\* Most documents the user adds in one session.
MaxDocs == 2
\* Most upload transmissions (remote files created) in one session.
MaxTransmissions == 3
\* Most status polls of one transmitted file.
MaxPolls == 2
\* Longest response text over TextChars that extraction alone is applied to.
MaxTextLen == 3
\* Most entries of a list field of an AnalysisResult-shaped object.
MaxItems == 1
\* Most entries of the frameworks_content mapping given to the prompt builder.
MaxFrameworks == 2
\* Longest run of freely chosen characters at the start of a file name (the
\* run at its end is one longer).
MaxEdge == 1

\* ------------------------------------------------------- program constants
\* getattr(Config, 'RATE_LIMIT_DELAY', 10)
base_retry_delay == 10
\* time.sleep(5) of the retry branches of analyze()
FixedDelay == 5
\* max_framework_length = 1000 of build_master_prompt()
max_framework_length == 1000
\* if len(name) > 200: name = name[:200]
max_name_length == 200

\* ---------------------------------------------------------------- strings
\* Python's str.find(c): 0-based index of the first occurrence, -1 if none.
RECURSIVE FindFrom(_, _, _)
FindFrom(t, c, i) ==
    IF i > Len(t) THEN -1
    ELSE IF t[i] = c THEN i - 1
    ELSE FindFrom(t, c, i + 1)

Find(t, c) == FindFrom(t, c, 1)

\* Python's str.rfind(c): 0-based index of the last occurrence, -1 if none.
RECURSIVE RFindFrom(_, _, _)
RFindFrom(t, c, i) ==
    IF i < 1 THEN -1
    ELSE IF t[i] = c THEN i - 1
    ELSE RFindFrom(t, c, i - 1)

RFind(t, c) == RFindFrom(t, c, Len(t))

\* Python's t[a:b] for b in 0..len(t): a negative a counts from the end of
\* the text (and stops at its start); the slice is empty when b <= a.
Slice(t, a, b) ==
    LET from == IF a >= 0 THEN a
                ELSE IF Len(t) + a >= 0 THEN Len(t) + a ELSE 0
    IN IF b <= from THEN << >> ELSE SubSeq(t, from + 1, b)

\* ------------------------------------------------------------------- JSON
\* A text is a sequence of characters.  "q" stands for the double quote, "b"
\* for the backslash and " " for white space; "1" and "2" are the digits;
\* every other character ("a", "x", ...) is a letter, which JSON allows
\* inside a string only.  Inside a string a backslash escapes a double quote
\* or a backslash, and nothing else of this alphabet.
\* A parsed value is <<"num", digits>>, <<"str", characters>>,
\* <<"arr", values>> or <<"obj", pairs>>, the pairs <<key, value>> of an
\* object in the order in which their keys first occur.
NumberChars == {"1", "2"}

JsonError == [ok |-> FALSE, val |-> << >>, next |-> 0]

\* The position of the first character at or after i that is not white space.
RECURSIVE SkipWs(_, _)
SkipWs(s, i) == IF i <= Len(s) /\ s[i] = " " THEN SkipWs(s, i + 1) ELSE i

\* The position after the digits that start at i.
RECURSIVE ScanDigits(_, _)
ScanDigits(s, i) == IF i <= Len(s) /\ s[i] \in NumberChars THEN ScanDigits(s, i + 1) ELSE i

\* The position of the double quote that closes the string whose content
\* starts at i; 0 when there is none or the content has an invalid escape.
RECURSIVE ScanString(_, _)
ScanString(s, i) ==
    IF i > Len(s) THEN 0
    ELSE IF s[i] = "q" THEN i
    ELSE IF s[i] = "b"
    THEN IF i + 1 <= Len(s) /\ s[i + 1] \in {"q", "b"} THEN ScanString(s, i + 2) ELSE 0
    ELSE ScanString(s, i + 1)

\* The characters a string content c denotes: each escape gives the
\* character it escapes.
RECURSIVE Unescape(_)
Unescape(c) ==
    IF c = << >> THEN << >>
    ELSE IF c[1] = "b" THEN <<c[2]>> \o Unescape(SubSeq(c, 3, Len(c)))
    ELSE <<c[1]>> \o Unescape(SubSeq(c, 2, Len(c)))

\* The object read so far is acc: a repeated key keeps its last value (a
\* Python dict).
PutKey(acc, k, v) ==
    IF \E j \in 1..Len(acc) : acc[j][1] = k
    THEN [j \in 1..Len(acc) |-> IF acc[j][1] = k THEN <<k, v>> ELSE acc[j]]
    ELSE Append(acc, <<k, v>>)

RECURSIVE ParseValue(_, _)
RECURSIVE ParseMembers(_, _, _)
RECURSIVE ParseElements(_, _, _)

\* Parses one JSON value of s starting at (1-based) position i0.
ParseValue(s, i0) ==
    LET i == SkipWs(s, i0) IN
    IF i > Len(s) THEN JsonError
    ELSE IF s[i] \in NumberChars THEN
        LET j == ScanDigits(s, i) IN
        [ok |-> TRUE, val |-> <<"num", SubSeq(s, i, j - 1)>>, next |-> j]
    ELSE IF s[i] = "q" THEN
        LET j == ScanString(s, i + 1) IN
        IF j = 0 THEN JsonError
        ELSE [ok |-> TRUE, val |-> <<"str", Unescape(SubSeq(s, i + 1, j - 1))>>, next |-> j + 1]
    ELSE IF s[i] = "{" THEN
        LET k == SkipWs(s, i + 1) IN
        IF k <= Len(s) /\ s[k] = "}"
        THEN [ok |-> TRUE, val |-> <<"obj", << >> >>, next |-> k + 1]
        ELSE ParseMembers(s, k, << >>)
    ELSE IF s[i] = "[" THEN
        LET k == SkipWs(s, i + 1) IN
        IF k <= Len(s) /\ s[k] = "]"
        THEN [ok |-> TRUE, val |-> <<"arr", << >> >>, next |-> k + 1]
        ELSE ParseElements(s, k, << >>)
    ELSE JsonError

\* Parses  string ':' value (',' string ':' value)* '}'  starting at i0.
ParseMembers(s, i0, acc) ==
    LET i == SkipWs(s, i0) IN
    IF i > Len(s) \/ s[i] # "q" THEN JsonError
    ELSE LET j == ScanString(s, i + 1) IN
         IF j = 0 THEN JsonError
         ELSE LET c == SkipWs(s, j + 1) IN
              IF c > Len(s) \/ s[c] # ":" THEN JsonError
              ELSE LET v == ParseValue(s, c + 1) IN
                   IF ~v.ok THEN JsonError
                   ELSE LET acc2 == PutKey(acc, Unescape(SubSeq(s, i + 1, j - 1)), v.val)
                            n == SkipWs(s, v.next)
                        IN IF n > Len(s) THEN JsonError
                           ELSE IF s[n] = "}"
                           THEN [ok |-> TRUE, val |-> <<"obj", acc2>>, next |-> n + 1]
                           ELSE IF s[n] = "," THEN ParseMembers(s, n + 1, acc2)
                           ELSE JsonError

\* Parses  value (',' value)* ']'  starting at i0.
ParseElements(s, i0, acc) ==
    LET v == ParseValue(s, i0) IN
    IF ~v.ok THEN JsonError
    ELSE LET acc2 == Append(acc, v.val)
             n == SkipWs(s, v.next)
         IN IF n > Len(s) THEN JsonError
            ELSE IF s[n] = "]"
            THEN [ok |-> TRUE, val |-> <<"arr", acc2>>, next |-> n + 1]
            ELSE IF s[n] = "," THEN ParseElements(s, n + 1, acc2)
            ELSE JsonError

\* json.loads(s): the parsed value, or JSONDecodeError (ok = FALSE) when s is
\* not exactly one JSON value with white space around it.
JsonLoads(s) ==
    LET v == ParseValue(s, 1) IN
    IF v.ok /\ SkipWs(s, v.next) = Len(s) + 1 THEN [ok |-> TRUE, val |-> v.val]
    ELSE [ok |-> FALSE, val |-> << >>]

\* --------------------------------------------------------------- extraction
\* start_idx = response_text.find('{')
StartIdx(t) == Find(t, "{")
\* Mutant: the slice stops before the last closing brace.
EndIdx_Exclusive(t) == RFind(t, "}")

\* Mutant: the slice ends at the first closing brace.
EndIdx_First(t) == Find(t, "}") + 1

\* end_idx = response_text.rfind('}') + 1
EndIdx(t) == RFind(t, "}") + 1
\* Mutant: only a missing closing brace counts as no JSON.
NoJsonFound_OnlyEnd(t) == EndIdx(t) = 0

\* if start_idx == -1 or end_idx == 0
NoJsonFound(t) == StartIdx(t) = -1 \/ EndIdx(t) = 0
\* json_str = response_text[start_idx:end_idx]
JsonStr(t) == Slice(t, StartIdx(t), EndIdx(t))

\* Mutant: a substring that does not parse counts as no JSON.
Extract_FailureIsNoJson(t) ==
    IF NoJsonFound(t) THEN [class |-> "NoJSON", val |-> << >>]
    ELSE LET r == JsonLoads(JsonStr(t)) IN
         IF r.ok THEN [class |-> "Success", val |-> r.val]
         ELSE [class |-> "NoJSON", val |-> << >>]

\* The classification of a response text by the extraction code of analyze().
Extract(t) ==
    IF NoJsonFound(t) THEN [class |-> "NoJSON", val |-> << >>]
    ELSE LET r == JsonLoads(JsonStr(t)) IN
         IF r.ok THEN [class |-> "Success", val |-> r.val]
         ELSE [class |-> "MalformedJSON", val |-> << >>]

\* The outcome of an extraction that has not run.
NotExtracted == [class |-> "", val |-> << >>]

\* ------------------------------------------------------------------- state
VARIABLES
    pc,           \* position of ArchopinionCLI.run (and of the calls it makes)
    max_retries,  \* GeminiClient.max_retries
    documents,    \* the documents list: the file_uri of each UploadedDocument
    bound,        \* 'documents' in locals() of run(): get_documents() returned
    file_infos,   \* verify_uploads: per document checked, "info" or "error"
    remote,       \* handles of the files the remote store holds
    transmitted,  \* number of upload transmissions made (handles are 1..transmitted)
    deletes,      \* deletes[h]: number of delete_uploaded_file calls for handle h
    delete_returns, \* what the delete_uploaded_file calls of the last cleanup_files returned
    u_attempt,    \* upload_file: loop variable attempt
    u_file,       \* upload_file: handle of the local variable file (0: none yet)
    u_state,      \* upload_file: file.state.name
    u_polls,      \* upload_file: polls made of the current file
    u_calls,      \* upload_file: calls of genai.upload_file made by the current call
    u_sleeps,     \* upload_file: the delays slept by the current call
    u_raised,     \* upload_file: the error the current call raised ("" while none)
    attempt,      \* analyze: loop variable attempt
    dispatches,   \* analyze: calls of model.generate_content made
    log,          \* analyze: per dispatch, its classification and the delay slept after it
    result,       \* analyze: the value returned (<< >> while none)
    raised,       \* analyze: the error it raised ("" while none)
    response_text,\* analyze: the local response_text (<< >> before the first response)
    pending,      \* exception in flight in run(): "", "KeyboardInterrupt" or "Exception"
    cleanups,     \* calls of cleanup_files made by run()
    report,       \* generate_report: "none", "written" or "failed"
    exit,         \* how run() ended ("" while running), and by which path
    x_text,       \* extraction alone: the response text it is applied to
    x_obj,        \* extraction alone: the object x_text was serialized from (<< >>: none)
    x_out,        \* extraction alone: its outcome (class "" before it ran)
    r_result,     \* generate_report alone: the analysis_result it is given
    r_out,        \* generate_report alone: its outcome
    p_frameworks, \* build_master_prompt alone: frameworks_content, as (name, content) pairs
    p_out,        \* build_master_prompt alone: the text embedded for each pair
    c_codes,      \* get_council_policies alone: the framework codes requested
    c_out,        \* get_council_policies alone: the mapping it returns
    s_name,       \* sanitize_filename alone: the filename it is given
    s_out,        \* sanitize_filename alone: the filename it returns
    n_bytes,      \* format_file_size alone: the size it is given
    n_out         \* format_file_size alone: the unit and scaled value it reports

vars == <<pc, max_retries, documents, bound, file_infos, remote, transmitted, deletes, delete_returns,
          u_attempt, u_file, u_state, u_polls, u_calls, u_sleeps,
          u_raised, attempt, dispatches, log, result, raised, response_text,
          pending, cleanups, report, exit, x_text, x_obj, x_out,
          r_result, r_out, p_frameworks, p_out, c_codes, c_out, s_name, s_out,
          n_bytes, n_out>>

uploadVars == <<u_attempt, u_file, u_state, u_polls, u_calls, u_sleeps, u_raised>>
analyzeVars == <<attempt, dispatches, log, result, raised, response_text>>
extractVars == <<x_text, x_obj, x_out>>
utilVars == <<r_result, r_out, p_frameworks, p_out, c_codes, c_out, s_name, s_out,
              n_bytes, n_out>>
storeVars == <<remote, transmitted, deletes, delete_returns>>
programVars == <<max_retries, documents, bound, file_infos, storeVars, uploadVars,
                 analyzeVars, pending, cleanups, report, exit>>

Handles == 1..MaxTransmissions

\* -------------------------------------------------------------- the remote
\* A ResourceExhausted error as wait_with_backoff reads it: whether it has
\* _details, whether 'retry_delay' occurs in str(_details), and the number the
\* pattern seconds:\s*(\d+) finds there (-1: no match).
NoDetails == [has_details |-> FALSE, retry_delay |-> FALSE, seconds |-> -1]
RateLimitErrors ==
    { NoDetails,
      [has_details |-> TRUE, retry_delay |-> TRUE, seconds |-> 7],
      [has_details |-> TRUE, retry_delay |-> FALSE, seconds |-> 7] }

\* Texts the inference endpoint answers with (response.text).
ResponseTexts ==
    { << >>,
      <<"x", "x">>,
      <<"x", "{", "x">>,
      <<"}", "x">>,
      <<"}", "x", "{">>,
      <<"x", "{", "x", "}", "x">>,
      <<"{", "q", "a", "q", ":", "1">>,
      <<"{", "}">>,
      <<"x", "{", "q", "a", "q", ":", " ", "1", "}", "x">>,
      <<"{", "q", "a", "q", ":", "1", "}", "}">> }

\* ------------------------------------------------------- wait_with_backoff
\* Mutant: the error's suggested interval is not read.
EffectiveBase_NoOverride(base_delay, error) == base_delay

\* The base delay after the override by the error's suggested interval.
EffectiveBase(base_delay, error) ==
    IF error.has_details /\ error.retry_delay /\ error.seconds >= 0
    THEN error.seconds
    ELSE base_delay

RECURSIVE Pow2(_)
Pow2(n) == IF n = 0 THEN 1 ELSE 2 * Pow2(n - 1)

\* Mutant: the exponent is the 1-based attempt number.
wait_with_backoff_OneBased(a, base_delay, error) ==
    EffectiveBase(base_delay, error) * Pow2(a + 1)

\* delay = base_delay * (2 ** attempt); the function sleeps delay seconds and returns it.
wait_with_backoff(a, base_delay, error) == EffectiveBase(base_delay, error) * Pow2(a)

\* Mutant: the loop gives up one attempt early.
AttemptsRemain_Early(a) == a < max_retries - 2

\* Mutant: the last attempt waits too before its error is raised.
AttemptsRemain_Late(a) == a < max_retries

\* if attempt < self.max_retries - 1
AttemptsRemain(a) == a < max_retries - 1

\* ------------------------------------------------------------ analyze()
\* One entry of log: the classification of a dispatch, the rate-limit error
\* it carried (NoDetails otherwise) and the seconds slept after it (-1: none,
\* the attempt ended analyze()).
LogEntry(class, err, delay) == [class |-> class, err |-> err, delay |-> delay]

\* last_error after the classified dispatches l: set by the handlers of
\* ResourceExhausted and of Exception, "" while it is None.
RECURSIVE last_error(_)
last_error(l) ==
    IF l = << >> THEN ""
    ELSE IF l[Len(l)].class = "RateLimited" THEN "ResourceExhausted"
    ELSE IF l[Len(l)].class = "TransientOther" THEN "OtherError"
    ELSE last_error(SubSeq(l, 1, Len(l) - 1))

\* Mutant: at the last attempt the error recorded by an earlier attempt is
\* raised, when there is one.
RetryOrRaise_EarlierError(class, err, delay, error) ==
    IF AttemptsRemain(attempt)
    THEN /\ log' = Append(log, LogEntry(class, err, delay))
         /\ attempt' = attempt + 1
         /\ UNCHANGED <<pc, raised>>
    ELSE /\ log' = Append(log, LogEntry(class, err, -1))
         /\ raised' = IF last_error(log) # "" THEN last_error(log) ELSE error
         /\ pc' = "analyze_raised"
         /\ UNCHANGED attempt

\* The retry branches: "if attempt < self.max_retries - 1" sleeps and goes on
\* to the next iteration of the for loop, else the error leaves analyze().
\* When the for loop has no iteration left after the sleep, the code after it
\* raises last_error, or a ValueError when there is none.
RetryOrRaise(class, err, delay, error) ==
    IF AttemptsRemain(attempt)
    THEN /\ log' = Append(log, LogEntry(class, err, delay))
         /\ attempt' = attempt + 1
         /\ IF attempt + 1 < max_retries
            THEN UNCHANGED <<pc, raised>>
            ELSE /\ pc' = "analyze_raised"
                 /\ raised' =
                       LET e == last_error(Append(log, LogEntry(class, err, delay))) IN
                       IF e # "" THEN e
                       ELSE "ValueError: Analysis failed after all retries"
    ELSE /\ log' = Append(log, LogEntry(class, err, -1))
         /\ raised' = error
         /\ pc' = "analyze_raised"
         /\ UNCHANGED attempt

\* The for loop runs an iteration: attempt in range(self.max_retries).
InLoop == pc = "analyze" /\ attempt < max_retries

\* Mutant: the exponent of the backoff is the number of rate limits met before.
AnalyzeRateLimited_CountsRateLimits ==
    /\ InLoop
    /\ dispatches' = dispatches + 1
    /\ \E e \in RateLimitErrors :
          RetryOrRaise("RateLimited", e,
                       wait_with_backoff(
                           Cardinality({i \in 1..Len(log) : log[i].class = "RateLimited"}),
                           base_retry_delay, e),
                       "ResourceExhausted")
    /\ UNCHANGED <<extractVars, utilVars, file_infos, max_retries, documents, bound, storeVars, uploadVars,
                   result, response_text, pending, cleanups, report, exit>>

\* except exceptions.ResourceExhausted: exponential backoff, or re-raise.
AnalyzeRateLimited ==
    /\ InLoop
    /\ dispatches' = dispatches + 1
    /\ \E e \in RateLimitErrors :
          RetryOrRaise("RateLimited", e,
                       wait_with_backoff(attempt, base_retry_delay, e),
                       "ResourceExhausted")
    /\ UNCHANGED <<extractVars, utilVars, file_infos, max_retries, documents, bound, storeVars, uploadVars,
                   result, response_text, pending, cleanups, report, exit>>

\* Mutant: InvalidArgument is retried like any other error.
AnalyzeInvalidArgument_Retried ==
    /\ InLoop
    /\ dispatches' = dispatches + 1
    /\ RetryOrRaise("InvalidRequest", NoDetails, FixedDelay, "InvalidArgument")
    /\ UNCHANGED <<extractVars, utilVars, file_infos, max_retries, documents, bound, storeVars, uploadVars,
                   result, response_text, pending, cleanups, report, exit>>

\* except exceptions.InvalidArgument: raise.
AnalyzeInvalidArgument ==
    /\ InLoop
    /\ dispatches' = dispatches + 1
    /\ log' = Append(log, LogEntry("InvalidRequest", NoDetails, -1))
    /\ raised' = "InvalidArgument"
    /\ pc' = "analyze_raised"
    /\ UNCHANGED <<extractVars, utilVars, file_infos, max_retries, documents, bound, storeVars, uploadVars,
                   attempt, result, response_text, pending, cleanups, report, exit>>

\* Mutant: any other error backs off exponentially like a rate limit.
AnalyzeOtherError_Backoff ==
    /\ InLoop
    /\ dispatches' = dispatches + 1
    /\ RetryOrRaise("TransientOther", NoDetails,
                    wait_with_backoff(attempt, base_retry_delay, NoDetails),
                    "OtherError")
    /\ UNCHANGED <<extractVars, utilVars, file_infos, max_retries, documents, bound, storeVars, uploadVars,
                   result, response_text, pending, cleanups, report, exit>>

\* except Exception: any other error of generate_content or response.text.
AnalyzeOtherError ==
    /\ InLoop
    /\ dispatches' = dispatches + 1
    /\ RetryOrRaise("TransientOther", NoDetails, FixedDelay, "OtherError")
    /\ UNCHANGED <<extractVars, utilVars, file_infos, max_retries, documents, bound, storeVars, uploadVars,
                   result, response_text, pending, cleanups, report, exit>>

\* Mutant: a JSONDecodeError is raised at once, without a retry.
AnalyzeResponse_MalformedFatal ==
    /\ InLoop
    /\ dispatches' = dispatches + 1
    /\ \E t \in ResponseTexts :
          LET x == Extract(t) IN
          /\ response_text' = t
          /\ IF x.class = "Success"
             THEN /\ result' = x.val
                  /\ log' = Append(log, LogEntry("Success", NoDetails, -1))
                  /\ pc' = "report"
                  /\ UNCHANGED <<attempt, raised>>
             ELSE IF x.class = "MalformedJSON"
             THEN /\ log' = Append(log, LogEntry(x.class, NoDetails, -1))
                  /\ raised' = "ValueError: Invalid JSON response"
                  /\ pc' = "analyze_raised"
                  /\ UNCHANGED <<attempt, result>>
             ELSE /\ RetryOrRaise(x.class, NoDetails, FixedDelay,
                                  "ValueError: No valid JSON found")
                  /\ UNCHANGED result
    /\ UNCHANGED <<extractVars, utilVars, file_infos, max_retries, documents, bound, storeVars, uploadVars,
                   pending, cleanups, report, exit>>

\* Mutant: when the attempts are exhausted an empty object is returned.
AnalyzeResponse_ReturnsEmpty ==
    /\ InLoop
    /\ dispatches' = dispatches + 1
    /\ \E t \in ResponseTexts :
          LET x == Extract(t) IN
          /\ response_text' = t
          /\ IF x.class = "Success"
             THEN /\ result' = x.val
                  /\ log' = Append(log, LogEntry("Success", NoDetails, -1))
                  /\ pc' = "report"
                  /\ UNCHANGED <<attempt, raised>>
             ELSE IF AttemptsRemain(attempt)
             THEN /\ RetryOrRaise(x.class, NoDetails, FixedDelay, "")
                  /\ UNCHANGED result
             ELSE /\ result' = <<"obj", << >> >>
                  /\ log' = Append(log, LogEntry(x.class, NoDetails, -1))
                  /\ pc' = "report"
                  /\ UNCHANGED <<attempt, raised>>
    /\ UNCHANGED <<extractVars, utilVars, file_infos, max_retries, documents, bound, storeVars, uploadVars,
                   pending, cleanups, report, exit>>

\* The call returned text: extraction.  A ValueError raised for the last
\* attempt passes through "except Exception", which re-raises it there.
AnalyzeResponse ==
    /\ InLoop
    /\ dispatches' = dispatches + 1
    /\ \E t \in ResponseTexts :
          LET x == Extract(t) IN
          /\ response_text' = t
          /\ IF x.class = "Success"
             THEN /\ result' = x.val
                  /\ log' = Append(log, LogEntry("Success", NoDetails, -1))
                  /\ pc' = "report"
                  /\ UNCHANGED <<attempt, raised>>
             ELSE /\ RetryOrRaise(x.class, NoDetails, FixedDelay,
                                  IF x.class = "NoJSON" THEN "ValueError: No valid JSON found"
                                  ELSE "ValueError: Invalid JSON response")
                  /\ UNCHANGED result
    /\ UNCHANGED <<extractVars, utilVars, file_infos, max_retries, documents, bound, storeVars, uploadVars,
                   pending, cleanups, report, exit>>

\* An exception leaves the try block of run() for its handlers.
Throw(e) ==
    /\ pending' = e
    /\ pc' = "except"

\* KeyboardInterrupt during generate_content (the dispatch was made), or
\* during the sleep that followed the previous attempt (no new dispatch):
\* no handler of analyze() catches it (it is not an Exception).
AnalyzeInterrupted ==
    /\ InLoop
    /\ \/ dispatches' = dispatches + 1
       \/ attempt > 0 /\ dispatches' = dispatches
    /\ raised' = "KeyboardInterrupt"
    /\ Throw("KeyboardInterrupt")
    /\ UNCHANGED <<extractVars, utilVars, file_infos, max_retries, documents, bound, storeVars, uploadVars,
                   attempt, log, result, response_text, cleanups, report, exit>>

\* ------------------------------------------------------- cleanup_files()
\* The handles of a documents list.
HandlesOf(docs) == {docs[i] : i \in 1..Len(docs)}

\* Number of entries of docs that carry handle h.
Occurrences(docs, h) == Cardinality({i \in 1..Len(docs) : docs[i] = h})

\* for doc in documents: if doc.file_uri: self.delete_uploaded_file(doc.file_uri)
\* The delete calls made, added to the counts d.
cleanup_files(docs, d) == [h \in Handles |-> d[h] + Occurrences(docs, h)]

\* Mutant: a failed remote deletion is raised to the caller.
delete_uploaded_file_Raises(h, ok) == [returned |-> ok, raised |-> ~ ok]

\* delete_uploaded_file(file_uri) when genai.delete_file succeeds (ok) or
\* raises an Exception: True, or the warning and False; nothing is raised.
delete_uploaded_file(h, ok) == [returned |-> ok, raised |-> FALSE]

\* The number of delete calls the for loop of cleanup_files makes for docs
\* when the remote deletions go as oks: the loop ends at a call that raises.
DeleteCalls(docs, oks) ==
    LET R == {i \in 1..Len(docs) : delete_uploaded_file(docs[i], oks[i]).raised}
    IN IF R = {} THEN Len(docs) ELSE CHOOSE i \in R : \A j \in R : i <= j

\* cleanup_files as run() calls it: one delete call per document; the remote
\* deletion of each may fail, and can succeed only for a file the store holds.
Cleanup ==
    /\ \E oks \in [1..Len(documents) -> BOOLEAN] :
          LET n == DeleteCalls(documents, oks) IN
          /\ \A i \in 1..Len(documents) : oks[i] => documents[i] \in remote
          /\ deletes' = cleanup_files(SubSeq(documents, 1, n), deletes)
          /\ remote' = remote \ {documents[i] : i \in {j \in 1..n : oks[j]}}
          /\ delete_returns' =
                [i \in 1..n |-> delete_uploaded_file(documents[i], oks[i]).returned]
    /\ cleanups' = cleanups + 1
    /\ UNCHANGED transmitted

\* ---------------------------------------------------------- upload_file()
\* Mutant: a rate-limited upload waits the fixed delay of analyze()'s other
\* errors instead of backing off.
UploadRetryOrRaise_FixedDelay(e) ==
    IF AttemptsRemain(u_attempt)
    THEN /\ u_sleeps' = Append(u_sleeps, FixedDelay)
         /\ u_attempt' = u_attempt + 1
         /\ pc' = "upload"
         /\ UNCHANGED u_raised
    ELSE /\ pc' = "select"
         /\ u_raised' = "ResourceExhausted"
         /\ UNCHANGED <<u_attempt, u_sleeps>>

\* The backoff branch of upload_file: sleep and go on to the next attempt,
\* or re-raise to get_documents(), whose "except Exception" prints the error
\* and continues with the next file selection.
UploadRetryOrRaise(e) ==
    IF AttemptsRemain(u_attempt)
    THEN /\ u_sleeps' = Append(u_sleeps, wait_with_backoff(u_attempt, base_retry_delay, e))
         /\ u_attempt' = u_attempt + 1
         /\ pc' = "upload"
         /\ UNCHANGED u_raised
    ELSE /\ pc' = "select"
         /\ u_raised' = "ResourceExhausted"
         /\ UNCHANGED <<u_attempt, u_sleeps>>

\* file = genai.upload_file(...): one iteration of the for loop begins.
UploadTransmit ==
    /\ pc = "upload"
    /\ u_attempt < max_retries
    /\ u_calls' = u_calls + 1
    /\ \/ \* the file is stored remotely under a fresh handle
          /\ transmitted < MaxTransmissions
          /\ transmitted' = transmitted + 1
          /\ remote' = remote \cup {transmitted + 1}
          /\ u_file' = transmitted + 1
          /\ \E st \in {"PROCESSING", "ACTIVE", "FAILED"} : u_state' = st
          /\ u_polls' = 0
          /\ pc' = "poll"
          /\ UNCHANGED <<u_attempt, u_sleeps, u_raised, deletes, delete_returns, pending>>
       \/ \* exceptions.ResourceExhausted
          /\ \E e \in RateLimitErrors : UploadRetryOrRaise(e)
          /\ UNCHANGED <<storeVars, u_file, u_state, u_polls, pending>>
       \/ \* any other Exception: printed and re-raised
          /\ pc' = "select"
          /\ u_raised' = "OtherError"
          /\ UNCHANGED <<storeVars, u_attempt, u_file, u_state, u_polls, u_sleeps, pending>>
       \/ \* KeyboardInterrupt
          /\ Throw("KeyboardInterrupt")
          /\ UNCHANGED <<storeVars, u_attempt, u_file, u_state, u_polls, u_sleeps, u_raised>>
    /\ UNCHANGED <<extractVars, utilVars, file_infos, max_retries, documents, bound, analyzeVars, cleanups, report, exit>>

\* while file.state.name == "PROCESSING": time.sleep(2); file = genai.get_file(file.name)
UploadPoll ==
    /\ pc = "poll"
    /\ u_state = "PROCESSING"
    /\ \/ /\ u_polls' = u_polls + 1
          /\ \E st \in {"PROCESSING", "ACTIVE", "FAILED"} :
                /\ st = "PROCESSING" => u_polls + 1 < MaxPolls
                /\ u_state' = st
          /\ UNCHANGED <<pc, u_attempt, u_file, u_calls, u_sleeps, u_raised, pending>>
       \/ \* exceptions.ResourceExhausted raised by get_file
          /\ \E e \in RateLimitErrors : UploadRetryOrRaise(e)
          /\ UNCHANGED <<u_file, u_state, u_polls, u_calls, pending>>
       \/ \* any other Exception
          /\ pc' = "select"
          /\ u_raised' = "OtherError"
          /\ UNCHANGED <<u_attempt, u_file, u_state, u_polls, u_calls, u_sleeps, pending>>
       \/ \* KeyboardInterrupt
          /\ Throw("KeyboardInterrupt")
          /\ UNCHANGED uploadVars
    /\ UNCHANGED <<extractVars, utilVars, file_infos, max_retries, documents, bound, storeVars, analyzeVars,
                   cleanups, report, exit>>

\* Mutant: a FAILED file is retried like a rate limit while attempts remain.
UploadDone_RetriesFailed ==
    /\ pc = "poll"
    /\ u_state # "PROCESSING"
    /\ IF u_state = "FAILED"
       THEN /\ UploadRetryOrRaise(NoDetails)
            /\ UNCHANGED documents
       ELSE /\ documents' = Append(documents, u_file)
            /\ \E stat_ok \in BOOLEAN : pc' = IF stat_ok THEN "more" ELSE "select"
            /\ UNCHANGED <<u_attempt, u_sleeps, u_raised>>
    /\ UNCHANGED <<extractVars, utilVars, file_infos, max_retries, bound, storeVars, analyzeVars,
                   u_file, u_state, u_polls, u_calls,
                   pending, cleanups, report, exit>>

\* Mutant: the handle is returned without waiting for the processing to end.
UploadDone_NoWait ==
    /\ pc = "poll"
    /\ IF u_state = "FAILED"
       THEN /\ pc' = "select"
            /\ u_raised' = "ValueError: File upload failed"
            /\ UNCHANGED documents
       ELSE /\ documents' = Append(documents, u_file)
            /\ \E stat_ok \in BOOLEAN : pc' = IF stat_ok THEN "more" ELSE "select"
            /\ UNCHANGED u_raised
    /\ UNCHANGED <<extractVars, utilVars, file_infos, max_retries, bound, storeVars, analyzeVars,
                   u_attempt, u_file, u_state, u_polls, u_calls, u_sleeps,
                   pending, cleanups, report, exit>>

\* Mutant: a FAILED file is recorded as a document without a handle.
UploadDone_RecordsFailed ==
    /\ pc = "poll"
    /\ u_state # "PROCESSING"
    /\ documents' = Append(documents, IF u_state = "FAILED" THEN 0 ELSE u_file)
    /\ \E stat_ok \in BOOLEAN : pc' = IF stat_ok THEN "more" ELSE "select"
    /\ UNCHANGED <<extractVars, utilVars, file_infos, max_retries, bound, storeVars, analyzeVars,
                   u_attempt, u_file, u_state, u_polls, u_calls, u_sleeps, u_raised,
                   pending, cleanups, report, exit>>

\* The loop ended.  FAILED raises ValueError (re-raised by "except
\* Exception"); otherwise file.uri is returned, get_documents() appends the
\* UploadedDocument and shows the table, where file_path.stat() may raise: the
\* same "except Exception" of get_documents() then continues the loop.
UploadDone ==
    /\ pc = "poll"
    /\ u_state # "PROCESSING"
    /\ IF u_state = "FAILED"
       THEN /\ pc' = "select"
            /\ u_raised' = "ValueError: File upload failed"
            /\ UNCHANGED documents
       ELSE /\ documents' = Append(documents, u_file)
            /\ \E stat_ok \in BOOLEAN : pc' = IF stat_ok THEN "more" ELSE "select"
            /\ UNCHANGED u_raised
    /\ UNCHANGED <<extractVars, utilVars, file_infos, max_retries, bound, storeVars, analyzeVars,
                   u_attempt, u_file, u_state, u_polls, u_calls, u_sleeps,
                   pending, cleanups, report, exit>>

\* The locals of upload_file() before its first iteration.
NoUpload ==
    /\ u_attempt' = 0
    /\ u_file' = 0
    /\ u_state' = ""
    /\ u_polls' = 0
    /\ u_calls' = 0
    /\ u_sleeps' = << >>
    /\ u_raised' = ""

\* ------------------------------------------------------- get_documents()
\* Mutant: cancelling the dialog ends the loop also when nothing was uploaded.
SelectFile_EmptyReturns ==
    /\ pc = "select"
    /\ \/ \* the user cancelled the dialog
          /\ pc' = "verify"
          /\ UNCHANGED <<uploadVars, pending>>
       \/ \* a file is selected and its type chosen: upload_file() starts
          /\ Len(documents) < MaxDocs
          /\ pc' = "upload"
          /\ NoUpload
          /\ UNCHANGED pending
       \/ \E e \in {"KeyboardInterrupt", "Exception"} :
             Throw(e) /\ UNCHANGED uploadVars
    /\ UNCHANGED <<extractVars, utilVars, file_infos, max_retries, documents, bound, storeVars, analyzeVars,
                   cleanups, report, exit>>

\* filedialog.askopenfilename, then the document-type prompt.
SelectFile ==
    /\ pc = "select"
    /\ \/ \* the user cancelled the dialog
          /\ pc' = IF documents # << >> THEN "verify" ELSE "select"
          /\ UNCHANGED <<uploadVars, pending>>
       \/ \* a file is selected and its type chosen: upload_file() starts
          /\ Len(documents) < MaxDocs
          /\ pc' = "upload"
          /\ NoUpload
          /\ UNCHANGED pending
       \/ \E e \in {"KeyboardInterrupt", "Exception"} :
             Throw(e) /\ UNCHANGED uploadVars
    /\ UNCHANGED <<extractVars, utilVars, file_infos, max_retries, documents, bound, storeVars, analyzeVars,
                   cleanups, report, exit>>

\* more = inquirer.confirm("Upload another document?")
AskMore ==
    /\ pc = "more"
    /\ \/ pc' = "select" /\ UNCHANGED pending
       \/ pc' = "verify" /\ UNCHANGED pending
       \/ \E e \in {"KeyboardInterrupt", "Exception"} : Throw(e)
    /\ UNCHANGED <<extractVars, utilVars, file_infos, max_retries, documents, bound, storeVars, uploadVars,
                   analyzeVars, cleanups, report, exit>>

\* Mutant: a failed metadata lookup is raised to the caller.
get_file_info_Raises(h, ok) ==
    [info |-> IF ok THEN "info" ELSE "error", raised |-> ~ ok]

\* get_file_info(file_uri) when genai.get_file succeeds (ok) or raises an
\* Exception: the metadata, or the warning and a dict with an 'error' key;
\* nothing is raised.
get_file_info(h, ok) ==
    [info |-> IF ok THEN "info" ELSE "error", raised |-> FALSE]

\* The number of get_file_info calls the for loop of verify_uploads makes for
\* docs when the lookups go as oks: the loop ends at a call that raises.
InfoCalls(docs, oks) ==
    LET R == {i \in 1..Len(docs) : get_file_info(docs[i], oks[i]).raised}
    IN IF R = {} THEN Len(docs) ELSE CHOOSE i \in R : \A j \in R : i <= j

\* root.destroy(); self.verify_uploads(documents).  The list is never empty
\* here, so sys.exit(1) is not reached.  Every document has a file_uri and is
\* looked up; an Exception leaving verify_uploads would leave get_documents.
VerifyUploads ==
    /\ pc = "verify"
    /\ \/ \E oks \in [1..Len(documents) -> BOOLEAN] :
             LET n == InfoCalls(documents, oks) IN
             /\ file_infos' = [i \in 1..n |-> get_file_info(documents[i], oks[i]).info]
             /\ IF \E i \in 1..n : get_file_info(documents[i], oks[i]).raised
                THEN Throw("Exception")
                ELSE pc' = "return" /\ UNCHANGED pending
       \/ /\ Throw("KeyboardInterrupt")
          /\ UNCHANGED file_infos
    /\ UNCHANGED <<extractVars, utilVars, max_retries, documents, bound, storeVars, uploadVars,
                   analyzeVars, cleanups, report, exit>>

\* return documents.  run() binds its local documents when the call returns,
\* and the frames of get_documents(), verify_uploads() and upload_file() are
\* gone.
ReturnDocuments ==
    /\ pc = "return"
    /\ bound' = TRUE
    /\ pc' = "frameworks"
    /\ NoUpload
    /\ file_infos' = << >>
    /\ UNCHANGED <<extractVars, utilVars, max_retries, documents, storeVars, analyzeVars,
                   pending, cleanups, report, exit>>

\* ------------------------------------------------------------------ run()
\* run() ends: it returns or an exception leaves it.
Exit(how) ==
    /\ exit' = how
    /\ pc' = "done"

\* if not self.gemini_client.test_connection(): return
TestConnection ==
    /\ pc = "test_connection"
    /\ \/ pc' = "project_info" /\ UNCHANGED <<pending, exit>>
       \/ Exit("no_connection") /\ UNCHANGED pending
       \/ Throw("KeyboardInterrupt") /\ UNCHANGED exit
    /\ UNCHANGED <<extractVars, utilVars, file_infos, max_retries, documents, bound, storeVars, uploadVars,
                   analyzeVars, cleanups, report>>

\* A prompt or fetch step of run() at position here: it goes on to position
\* next, or an exception leaves the try block.
Step(here, next) ==
    /\ pc = here
    /\ \/ pc' = next /\ UNCHANGED pending
       \/ \E e \in {"KeyboardInterrupt", "Exception"} : Throw(e)
    /\ UNCHANGED <<extractVars, utilVars, file_infos, max_retries, documents, bound, storeVars, uploadVars,
                   analyzeVars, cleanups, report, exit>>

\* project_info = self.get_project_info(); get_documents() is entered.
GetProjectInfo == Step("project_info", "select")

\* frameworks = self.get_frameworks()
GetFrameworks == Step("frameworks", "user_prompt")

\* user_prompt = self.get_user_prompt(); the request is built and summarised.
GetUserPrompt == Step("user_prompt", "confirm")

\* Mutant: the uploaded files are deleted as soon as the user has confirmed.
Confirm_CleansBeforeAnalysis ==
    /\ pc = "confirm"
    /\ \/ /\ pc' = "fetch"
          /\ Cleanup
          /\ UNCHANGED <<pending, exit>>
       \/ /\ Cleanup
          /\ Exit("declined")
          /\ UNCHANGED pending
       \/ /\ \E e \in {"KeyboardInterrupt", "Exception"} : Throw(e)
          /\ UNCHANGED <<storeVars, cleanups, exit>>
    /\ UNCHANGED <<extractVars, utilVars, file_infos, max_retries, documents, bound, uploadVars, analyzeVars, report>>

\* Mutant: declining returns without deleting the uploaded files.
Confirm_DeclineNoCleanup ==
    /\ pc = "confirm"
    /\ \/ /\ pc' = "fetch"
          /\ UNCHANGED <<storeVars, cleanups, pending, exit>>
       \/ /\ Exit("declined")
          /\ UNCHANGED <<storeVars, cleanups, pending>>
       \/ /\ \E e \in {"KeyboardInterrupt", "Exception"} : Throw(e)
          /\ UNCHANGED <<storeVars, cleanups, exit>>
    /\ UNCHANGED <<extractVars, utilVars, file_infos, max_retries, documents, bound, uploadVars, analyzeVars, report>>

\* if not inquirer.confirm("Proceed with analysis?"): cleanup_files; return
Confirm ==
    /\ pc = "confirm"
    /\ \/ /\ pc' = "fetch"
          /\ UNCHANGED <<storeVars, cleanups, pending, exit>>
       \/ /\ Cleanup
          /\ Exit("declined")
          /\ UNCHANGED pending
       \/ /\ \E e \in {"KeyboardInterrupt", "Exception"} : Throw(e)
          /\ UNCHANGED <<storeVars, cleanups, exit>>
    /\ UNCHANGED <<extractVars, utilVars, file_infos, max_retries, documents, bound, uploadVars, analyzeVars, report>>

\* frameworks_content = self.scraper.get_council_policies(...); analyze() is entered.
FetchFrameworks == Step("fetch", "analyze")

\* Mutant: the error of analyze() is raised again after the cleanup.
AnalysisFailed_Reraises ==
    /\ pc = "analyze_raised"
    /\ Cleanup
    /\ Exit("error")
    /\ UNCHANGED <<extractVars, utilVars, file_infos, max_retries, documents, bound, uploadVars, analyzeVars,
                   pending, report>>

\* except Exception as e: (around analyze) cleanup_files(documents); return
AnalysisFailed ==
    /\ pc = "analyze_raised"
    /\ Cleanup
    /\ Exit("analysis_failed")
    /\ UNCHANGED <<extractVars, utilVars, file_infos, max_retries, documents, bound, uploadVars, analyzeVars,
                   pending, report>>

\* report_path = self.report_generator.generate_report(request, analysis_result)
GenerateReport ==
    /\ pc = "report"
    /\ \/ /\ report' = "written"
          /\ pc' = "open"
          /\ UNCHANGED pending
       \/ \* except Exception: "Report generation failed"; then the finally block
          /\ report' = "failed"
          /\ pc' = "finally"
          /\ UNCHANGED pending
       \/ \* KeyboardInterrupt: the finally block runs with it in flight
          /\ report' = "failed"
          /\ pc' = "finally"
          /\ pending' = "KeyboardInterrupt"
    /\ UNCHANGED <<extractVars, utilVars, file_infos, max_retries, documents, bound, storeVars, uploadVars,
                   analyzeVars, cleanups, exit>>

\* The success panel and the "Open the report now?" prompt.
OpenReport ==
    /\ pc = "open"
    /\ pc' = "finally"
    /\ \/ UNCHANGED <<pending, report>>
       \/ \* an Exception of the prompt or of the viewer: caught at "except Exception"
          /\ report' = "written_open_failed"
          /\ UNCHANGED pending
       \/ /\ pending' = "KeyboardInterrupt"
          /\ UNCHANGED report
    /\ UNCHANGED <<extractVars, utilVars, file_infos, max_retries, documents, bound, storeVars, uploadVars,
                   analyzeVars, cleanups, exit>>

\* finally: self.gemini_client.cleanup_files(documents); then run() returns,
\* or the exception in flight goes on to the handlers of the outer try.
Finally ==
    /\ pc = "finally"
    /\ Cleanup
    /\ IF pending = ""
       THEN Exit(IF report = "failed" THEN "render_failed" ELSE "success")
       ELSE pc' = "except" /\ UNCHANGED exit
    /\ UNCHANGED <<extractVars, utilVars, file_infos, max_retries, documents, bound, uploadVars, analyzeVars,
                   pending, report>>

\* Mutant: the handlers of the outer try do not clean up.
HandlerCleanup_Skipped == UNCHANGED <<storeVars, cleanups>>

\* if 'documents' in locals(): self.gemini_client.cleanup_files(documents)
HandlerCleanup ==
    IF bound THEN Cleanup ELSE UNCHANGED <<storeVars, cleanups>>

\* except KeyboardInterrupt: cleanup when documents is bound; run() returns.
HandleInterrupt ==
    /\ pc = "except"
    /\ pending = "KeyboardInterrupt"
    /\ HandlerCleanup
    /\ Exit("interrupted")
    /\ UNCHANGED <<extractVars, utilVars, file_infos, max_retries, documents, bound, uploadVars, analyzeVars,
                   pending, report>>

\* except Exception: cleanup when documents is bound; raise.
HandleError ==
    /\ pc = "except"
    /\ pending = "Exception"
    /\ HandlerCleanup
    /\ Exit("error")
    /\ UNCHANGED <<extractVars, utilVars, file_infos, max_retries, documents, bound, uploadVars, analyzeVars,
                   pending, report>>

\* ---------------------------------------------------------- specification
\* The variables of run() and of its calls, before run() starts.
ProgramIdle ==
    /\ max_retries = 1
    /\ documents = << >>
    /\ bound = FALSE
    /\ file_infos = << >>
    /\ remote = {}
    /\ transmitted = 0
    /\ deletes = [h \in Handles |-> 0]
    /\ delete_returns = << >>
    /\ u_attempt = 0
    /\ u_file = 0
    /\ u_state = ""
    /\ u_polls = 0
    /\ u_calls = 0
    /\ u_sleeps = << >>
    /\ u_raised = ""
    /\ attempt = 0
    /\ dispatches = 0
    /\ log = << >>
    /\ result = << >>
    /\ raised = ""
    /\ response_text = << >>
    /\ pending = ""
    /\ cleanups = 0
    /\ report = "none"
    /\ exit = ""

\* A function that is also modelled alone has no input and no outcome.
ExtractIdle == x_text = << >> /\ x_obj = << >> /\ x_out = NotExtracted
RenderIdle == r_result = << >> /\ r_out = << >>
PromptIdle == p_frameworks = << >> /\ p_out = << >>
ProviderIdle == c_codes = << >> /\ c_out = << >>
SanitizeIdle == s_name = << >> /\ s_out = << >>
FormatIdle == n_bytes = << >> /\ n_out = << >>
UtilsIdle == RenderIdle /\ PromptIdle /\ ProviderIdle /\ SanitizeIdle /\ FormatIdle

Init ==
    /\ pc = "test_connection"
    /\ max_retries \in 1..MaxRetriesCap
    /\ documents = << >>
    /\ bound = FALSE
    /\ file_infos = << >>
    /\ remote = {}
    /\ transmitted = 0
    /\ deletes = [h \in Handles |-> 0]
    /\ delete_returns = << >>
    /\ u_attempt = 0
    /\ u_file = 0
    /\ u_state = ""
    /\ u_polls = 0
    /\ u_calls = 0
    /\ u_sleeps = << >>
    /\ u_raised = ""
    /\ attempt = 0
    /\ dispatches = 0
    /\ log = << >>
    /\ result = << >>
    /\ raised = ""
    /\ response_text = << >>
    /\ pending = ""
    /\ cleanups = 0
    /\ report = "none"
    /\ exit = ""
    /\ ExtractIdle
    /\ UtilsIdle

Next ==
    \/ TestConnection
    \/ GetProjectInfo
    \/ SelectFile
    \/ UploadTransmit
    \/ UploadPoll
    \/ UploadDone
    \/ AskMore
    \/ VerifyUploads
    \/ ReturnDocuments
    \/ GetFrameworks
    \/ GetUserPrompt
    \/ Confirm
    \/ FetchFrameworks
    \/ AnalyzeRateLimited
    \/ AnalyzeInvalidArgument
    \/ AnalyzeOtherError
    \/ AnalyzeResponse
    \/ AnalyzeInterrupted
    \/ AnalysisFailed
    \/ GenerateReport
    \/ OpenReport
    \/ Finally
    \/ HandleInterrupt
    \/ HandleError

Spec == Init /\ [][Next]_vars

\* A step of the retry loop of analyze().
AnalyzeStep ==
    \/ AnalyzeRateLimited
    \/ AnalyzeInvalidArgument
    \/ AnalyzeOtherError
    \/ AnalyzeResponse
    \/ AnalyzeInterrupted

\* The program is sequential and every remote call and sleep of analyze()
\* returns or raises: the loop takes its next step whenever it has one.
FairSpec == Spec /\ WF_vars(AnalyzeStep)

\* A step of upload_file().
UploadStep ==
    \/ UploadTransmit
    \/ UploadPoll
    \/ UploadDone

\* Every remote call and sleep of upload_file() returns or raises, so the
\* call takes its next step whenever it has one.
UploadFairSpec == Spec /\ WF_vars(UploadStep)

\* ------------------------------------------------ extraction, taken alone
\* The characters of the short response texts.
TextChars == {"{", "}", "q", "a", ":", "1"}

\* Every response text of at most MaxTextLen characters.
ShortTexts == UNION {[1..n -> TextChars] : n \in 0..MaxTextLen}

\* The contents of the strings of an AnalysisResult-shaped object: braces,
\* an escaped double quote and a backslash included.
FieldStrings == { <<"a">>, <<"}", "{">>, <<"b", "q">> }

\* Every list of at most MaxItems entries of S.
ListsOf(S) == UNION {[1..n -> S] : n \in 0..MaxItems}

Str(c) == <<"str", c>>
Arr(l) == <<"arr", l>>
Obj(m) == <<"obj", m>>

\* The shape the prompt asks for, one member per entry: "f" is
\* aiReviewFramework (entries with "n": framework), "p" planByPlanReview
\* (entries with "o": the list observations), "c" policyCompatibilitySummary
\* (entries with "s": status) and "r" aiRecommendationSummary.
AnalysisResults ==
    { Obj(<< <<<<"f">>, Arr(f)>>, <<<<"p">>, Arr(p)>>, <<<<"c">>, Arr(c)>>, <<<<"r">>, Str(r)>> >>) :
        f \in ListsOf({Obj(<< <<<<"n">>, Str(n)>> >>) : n \in FieldStrings}),
        p \in ListsOf({Obj(<< <<<<"o">>, Arr(<<Str(o)>>)>> >>) : o \in FieldStrings}),
        c \in ListsOf({Obj(<< <<<<"s">>, Str(st)>> >>) : st \in FieldStrings}),
        r \in FieldStrings }

\* The objects whose serialized form the response texts embed.
JsonObjects ==
    AnalysisResults \cup { Obj(<< >>), Obj(<< <<<<"a">>, <<"num", <<"1">>>>>> >>) }

\* Commentary before the object (no "{") and after it (no "}").
Prefixes == { << >>, <<"x", " ">>, <<"}", "x">> }
Suffixes == { << >>, <<" ", "x">>, <<"x", "{">> }

\* The content of the JSON string that denotes the characters c.
RECURSIVE Escape(_)
Escape(c) ==
    IF c = << >> THEN << >>
    ELSE (IF c[1] \in {"q", "b"} THEN <<"b", c[1]>> ELSE <<c[1]>>)
         \o Escape(SubSeq(c, 2, Len(c)))

RECURSIVE Serialize(_)
RECURSIVE SerializeMembers(_)
RECURSIVE SerializeElements(_)

\* The JSON text of a value: members and elements are separated by a comma
\* and a space, a key from its value by a colon and a space.
Serialize(v) ==
    IF v[1] = "num" THEN v[2]
    ELSE IF v[1] = "str" THEN <<"q">> \o Escape(v[2]) \o <<"q">>
    ELSE IF v[1] = "arr" THEN <<"[">> \o SerializeElements(v[2]) \o <<"]">>
    ELSE <<"{">> \o SerializeMembers(v[2]) \o <<"}">>

SerializeMembers(m) ==
    IF m = << >> THEN << >>
    ELSE <<"q">> \o Escape(m[1][1]) \o <<"q", ":", " ">> \o Serialize(m[1][2])
         \o (IF Len(m) = 1 THEN << >> ELSE <<",", " ">> \o SerializeMembers(SubSeq(m, 2, Len(m))))

SerializeElements(l) ==
    IF l = << >> THEN << >>
    ELSE Serialize(l[1])
         \o (IF Len(l) = 1 THEN << >> ELSE <<",", " ">> \o SerializeElements(SubSeq(l, 2, Len(l))))

\* Extraction is about to be applied to a response text: a short text, or
\* the serialized form of an object with commentary around it.
ExtractInit ==
    /\ pc = "extract"
    /\ ProgramIdle
    /\ UtilsIdle
    /\ x_out = NotExtracted
    /\ \/ x_text \in ShortTexts /\ x_obj = << >>
       \/ \E p \in Prefixes, o \in JsonObjects, q \in Suffixes :
             /\ x_text = p \o Serialize(o) \o q
             /\ x_obj = o

\* Lines 224-253 of analyze() applied to x_text.
ExtractApply ==
    /\ pc = "extract"
    /\ x_out = NotExtracted
    /\ x_out' = Extract(x_text)
    /\ pc' = "extracted"
    /\ UNCHANGED <<programVars, utilVars, x_text, x_obj>>

ExtractNext == ExtractApply

ExtractSpec == ExtractInit /\ [][ExtractNext]_vars

\* --------------------------------------------- generate_report, taken alone
\* A dict is a function from the keys it has.
Restrict(d, K) == [k \in K |-> d[k]]

\* d.get(k, default)
Get(d, k, default) == IF k \in DOMAIN d THEN d[k] ELSE default

\* The first key of the sequence keys that the dict d lacks ("" when it has
\* them all): the KeyError of the first failing subscript d[k].
RECURSIVE FirstMissing(_, _)
FirstMissing(d, keys) ==
    IF keys = << >> THEN ""
    ELSE IF keys[1] \notin DOMAIN d THEN keys[1]
    ELSE FirstMissing(d, SubSeq(keys, 2, Len(keys)))

\* The first of the errors e that is one ("" when none is).
RECURSIVE FirstError(_)
FirstError(e) ==
    IF e = << >> THEN ""
    ELSE IF e[1] # "" THEN e[1]
    ELSE FirstError(SubSeq(e, 2, Len(e)))

\* The keys the loops of generate_report subscript, in the order they do.
FrameworkReads == <<"framework", "keyConsiderations", "relevantPolicies">>
PlanReads == <<"planType", "positives", "observations", "complianceNotes">>
SummaryReads == <<"status", "policyArea", "details">>

\* status_color of the summary loop.
status_color(status) ==
    IF status = "Compliant" THEN "green"
    ELSE IF status = "Partially Compliant" THEN "orange"
    ELSE "red"

\* Mutant: the row of the summary table is drawn in status_color.
SummaryRow_Coloured(policy) ==
    [area |-> policy["policyArea"], status |-> policy["status"],
     colour |-> status_color(policy["status"])]

\* The row appended to summary_data for a policy: its texts only.  The
\* table style does not depend on the status; status_color is not used.
SummaryRow(policy) ==
    [area |-> policy["policyArea"], status |-> policy["status"], colour |-> "none"]

\* generate_report(request, analysis_result): the KeyError raised while the
\* story is built ("" when none), the files written by doc.build(story), and
\* the rows of the summary table.
generate_report(res) ==
    LET fw == Get(res, "aiReviewFramework", << >>)
        pl == Get(res, "planByPlanReview", << >>)
        po == Get(res, "policyCompatibilitySummary", << >>)
        err == FirstError([i \in 1..Len(fw) |-> FirstMissing(fw[i], FrameworkReads)]
                          \o [i \in 1..Len(pl) |-> FirstMissing(pl[i], PlanReads)]
                          \o [i \in 1..Len(po) |-> FirstMissing(po[i], SummaryReads)])
    IN IF err # ""
       THEN [raised |-> err, artifacts |-> 0, rows |-> << >>]
       ELSE [raised |-> "", artifacts |-> 1, rows |-> [i \in 1..Len(po) |-> SummaryRow(po[i])]]

\* Entries of the three lists: complete, or lacking one of their fields.
LackingOne(entry) ==
    {entry} \cup {Restrict(entry, DOMAIN entry \ {k}) : k \in DOMAIN entry}

FrameworkEntries ==
    LackingOne([framework |-> "t", relevantPolicies |-> <<"t">>, keyConsiderations |-> "t"])

PlanEntries ==
    LackingOne([planType |-> "t", positives |-> <<"t">>, observations |-> << >>,
                complianceNotes |-> "t"])

Statuses == {"Compliant", "Partially Compliant", "Non-Compliant", "Unknown"}

PolicyEntries ==
    LackingOne([policyArea |-> "t", status |-> "Compliant", details |-> "t",
                recommendations |-> <<"t">>])
    \cup {[policyArea |-> "t", status |-> st, details |-> "t"] : st \in Statuses}

TopKeys ==
    {"aiReviewFramework", "planByPlanReview", "policyCompatibilitySummary",
     "aiRecommendationSummary"}

\* The parsed payloads: any of the four fields absent, the lists of at most
\* MaxItems entries.
Payloads ==
    { Restrict([aiReviewFramework |-> f, planByPlanReview |-> p,
                policyCompatibilitySummary |-> c, aiRecommendationSummary |-> "t"], K) :
        K \in SUBSET TopKeys, f \in ListsOf(FrameworkEntries),
        p \in ListsOf(PlanEntries), c \in ListsOf(PolicyEntries) }

RenderInit ==
    /\ pc = "render"
    /\ ProgramIdle
    /\ ExtractIdle
    /\ PromptIdle /\ ProviderIdle /\ SanitizeIdle /\ FormatIdle
    /\ r_result \in Payloads
    /\ r_out = << >>

RenderApply ==
    /\ pc = "render"
    /\ r_out' = generate_report(r_result)
    /\ pc' = "rendered"
    /\ UNCHANGED <<programVars, extractVars, r_result, p_frameworks, p_out,
                   c_codes, c_out, s_name, s_out, n_bytes, n_out>>

RenderNext == RenderApply

RenderSpec == RenderInit /\ [][RenderNext]_vars

\* ----------------------------------------- build_master_prompt, taken alone
\* "\n[Content truncated]": a line break and the marker text.
TruncationMarker == <<"nl", "[Content truncated]">>

\* Mutant: content of exactly max_framework_length characters is cut too.
Embed_AtLimit(content) ==
    IF Len(content) >= max_framework_length
    THEN Slice(content, 0, max_framework_length) \o TruncationMarker
    ELSE content

\* if len(content) > max_framework_length:
\*     content = content[:max_framework_length] + "\n[Content truncated]"
Embed(content) ==
    IF Len(content) > max_framework_length
    THEN Slice(content, 0, max_framework_length) \o TruncationMarker
    ELSE content

\* The loop over frameworks_content.items(): the name and the text embedded
\* in frameworks_text for each entry.
FrameworksText(fc) == [i \in 1..Len(fc) |-> <<fc[i][1], Embed(fc[i][2])>>]

\* A content text of n characters.
ContentOf(n) == [i \in 1..n |-> IF i % 7 = 0 THEN "b" ELSE "a"]

\* The lengths of the content texts, around the limit.
ContentLengths ==
    {0, 1, max_framework_length - 1, max_framework_length, max_framework_length + 1,
     max_framework_length + 2, 2 * max_framework_length}

\* The names of the entries, in the order of the mapping.
FrameworkNames == <<"NPPF", "PDR", "LDF", "BRE">>

PromptInit ==
    /\ pc = "prompt"
    /\ ProgramIdle
    /\ ExtractIdle
    /\ RenderIdle /\ ProviderIdle /\ SanitizeIdle /\ FormatIdle
    /\ \E n \in 0..MaxFrameworks : \E ls \in [1..n -> ContentLengths] :
          p_frameworks = [i \in 1..n |-> <<FrameworkNames[i], ContentOf(ls[i])>>]
    /\ p_out = << >>

PromptApply ==
    /\ pc = "prompt"
    /\ p_out' = FrameworksText(p_frameworks)
    /\ pc' = "prompted"
    /\ UNCHANGED <<programVars, extractVars, r_result, r_out, p_frameworks,
                   c_codes, c_out, s_name, s_out, n_bytes, n_out>>

PromptNext == PromptApply

PromptSpec == PromptInit /\ [][PromptNext]_vars

\* ---------------------------------------- get_council_policies, taken alone
\* The keys of mock_content.
MockCodes == {"NPPF", "PDR", "LDF", "LP", "BRE", "SPD"}

\* The keys of Config.PLANNING_FRAMEWORKS, which get_frameworks() offers.
PLANNING_FRAMEWORKS == {"NPPF", "PPG", "PDR", "LDF", "LP", "BRE", "SPD"}

\* Mutant: the content is subscripted, a code without content is a KeyError.
scrape_framework_content_Subscript(framework) ==
    IF framework \in MockCodes THEN <<"content", framework>>
    ELSE <<"KeyError", framework>>

\* mock_content.get(framework, f"Framework content for {framework}")
scrape_framework_content(framework) ==
    IF framework \in MockCodes THEN <<"content", framework>>
    ELSE <<"Framework content for", framework>>

\* results[framework] = self.scrape_framework_content(framework, council)
\* for each framework requested; return results
get_council_policies(frameworks) ==
    [f \in {frameworks[i] : i \in 1..Len(frameworks)} |-> scrape_framework_content(f)]

\* The codes a caller may ask for: the catalog and a code outside it.
RequestCodes == PLANNING_FRAMEWORKS \cup {"XYZ"}

ProviderInit ==
    /\ pc = "fetch_alone"
    /\ ProgramIdle
    /\ ExtractIdle
    /\ RenderIdle /\ PromptIdle /\ SanitizeIdle /\ FormatIdle
    /\ c_codes \in UNION {[1..n -> RequestCodes] : n \in 0..MaxFrameworks}
    /\ c_out = << >>

ProviderApply ==
    /\ pc = "fetch_alone"
    /\ c_out' = get_council_policies(c_codes)
    /\ pc' = "fetched"
    /\ UNCHANGED <<programVars, extractVars, r_result, r_out, p_frameworks, p_out,
                   c_codes, s_name, s_out, n_bytes, n_out>>

ProviderNext == ProviderApply

ProviderSpec == ProviderInit /\ [][ProviderNext]_vars

\* ------------------------------------------- sanitize_filename, taken alone
\* A file name is a sequence of characters, each a one-character string.
invalid_chars == <<"<", ">", ":", "\"", "/", "\\", "|", "?", "*">>

\* Python's str.replace(old, new) for one-character old and new.
Replace(t, old, new) ==
    << >> \o [i \in 1..Len(t) |-> IF t[i] = old THEN new ELSE t[i]]

\* for char in invalid_chars: filename = filename.replace(char, '_')
RECURSIVE ReplaceAll(_, _)
ReplaceAll(t, k) ==
    IF k > Len(invalid_chars) THEN t
    ELSE ReplaceAll(Replace(t, invalid_chars[k], "_"), k + 1)

\* Whether some character of p at the 0-based indices from..(to - 1) is not
\* a dot.
NonDotIn(p, from, to) == \E i \in (from + 1)..to : p[i] # "."

\* os.path.splitext(p): the extension starts at the last dot after the last
\* separator, unless only dots precede it in the base name.
splitext(p) ==
    LET rfind(c) == IF \E i \in 1..Len(p) : p[i] = c
                    THEN (CHOOSE i \in 1..Len(p) :
                             p[i] = c /\ \A j \in (i + 1)..Len(p) : p[j] # c) - 1
                    ELSE -1
        sepIndex == rfind("/")
        dotIndex == rfind(".")
    IN IF dotIndex > sepIndex /\ NonDotIn(p, sepIndex + 1, dotIndex)
       THEN <<Slice(p, 0, dotIndex), SubSeq(p, dotIndex + 1, Len(p))>>
       ELSE <<p, << >> >>

\* Mutant: the whole file name is cut, the extension with it.
sanitize_filename_CutsWhole(filename) ==
    LET clean == ReplaceAll(filename, 1)
    IN IF Len(clean) > max_name_length THEN Slice(clean, 0, max_name_length) ELSE clean

sanitize_filename(filename) ==
    LET clean == ReplaceAll(filename, 1)
        name == splitext(clean)[1]
        ext == splitext(clean)[2]
    IN (IF Len(name) > max_name_length THEN Slice(name, 0, max_name_length) ELSE name) \o ext

\* The characters of the file names tried: every invalid character, a
\* letter, the underscore and the dot.
NameChars == {invalid_chars[k] : k \in 1..Len(invalid_chars)} \cup {"a", "_", "."}

\* The ends of the file names tried.
Endings ==
    {<< >>, <<"a">>, <<".">>, <<"?">>, <<".", "a">>, <<".", "?">>, <<".", ".">>,
     <<"a", ".">>, <<"?", ".">>, <<".", "a", ".", "?">>}

\* n letters, the middle of a file name.
Letters(n) == [i \in 1..n |-> "a"]

\* The lengths of the middle of the file names, around the limit.
MiddleLengths == {0, max_name_length - 1, max_name_length, max_name_length + 1}

SanitizeInit ==
    /\ pc = "sanitize"
    /\ ProgramIdle
    /\ ExtractIdle
    /\ RenderIdle /\ PromptIdle /\ ProviderIdle /\ FormatIdle
    /\ \E h \in UNION {[1..n -> NameChars] : n \in 0..MaxEdge} :
       \E m \in MiddleLengths :
       \E e \in Endings :
          s_name = h \o Letters(m) \o e
    /\ s_out = << >>

SanitizeApply ==
    /\ pc = "sanitize"
    /\ s_out' = sanitize_filename(s_name)
    /\ pc' = "sanitized"
    /\ UNCHANGED <<programVars, extractVars, r_result, r_out, p_frameworks, p_out,
                   c_codes, c_out, s_name, n_bytes, n_out>>

SanitizeNext == SanitizeApply

SanitizeSpec == SanitizeInit /\ [][SanitizeNext]_vars

\* -------------------------------------------- format_file_size, taken alone
\* A size is written in base 1024, least significant digit first, so that
\* dividing by 1024.0 drops no digit: sizes below 2^50 and their quotients
\* by powers of 1024 are exact as floating-point numbers.
RECURSIVE Value(_)
Value(ds) == IF ds = << >> THEN 0 ELSE Head(ds) + 1024 * Value(Tail(ds))

\* for unit in ['B', 'KB', 'MB', 'GB']
Units == <<"B", "KB", "MB", "GB">>

\* Mutant: the test is size_bytes <= 1024.0.
Below1024_Inclusive(ds, k) ==
    \/ \A i \in (k + 2)..Len(ds) : ds[i] = 0
    \/ /\ k + 2 <= Len(ds) /\ ds[k + 2] = 1
       /\ \A i \in 1..Len(ds) : i # k + 2 => ds[i] = 0

\* size_bytes < 1024.0 after k divisions by 1024.0
Below1024(ds, k) == \A i \in (k + 2)..Len(ds) : ds[i] = 0

\* 20 times the fraction whose base-1024 digits are fd: its integer part
\* (carry) and whether a fraction is left over (nonzero).
RECURSIVE Times20(_, _, _, _)
Times20(fd, i, carry, nz) ==
    IF i > Len(fd) THEN [carry |-> carry, nonzero |-> nz]
    ELSE LET p == 20 * fd[i] + carry
         IN Times20(fd, i + 1, p \div 1024, nz \/ p % 1024 # 0)

\* f"{x:.1f}" for x = whole + the fraction of digits fd: the decimal with one
\* digit after the point nearest to x, the one with an even last digit when
\* x is half way between two.
OneDecimal(whole, fd) ==
    LET m == Times20(fd, 1, 0, FALSE)
        t == m.carry \div 2
        up == m.carry % 2 = 1 /\ (m.nonzero \/ t % 2 = 1)
        t2 == IF up THEN t + 1 ELSE t
    IN IF t2 = 10 THEN [whole |-> whole + 1, tenth |-> 0]
       ELSE [whole |-> whole, tenth |-> t2]

format_file_size(ds) ==
    LET K == {k \in 0..(Len(Units) - 1) : Below1024(ds, k)}
        k == IF K = {} THEN Len(Units) ELSE CHOOSE i \in K : \A j \in K : i <= j
        shown == OneDecimal(Value(SubSeq(ds, k + 1, Len(ds))), SubSeq(ds, 1, k))
    IN [whole |-> shown.whole, tenth |-> shown.tenth,
        unit |-> IF K = {} THEN "TB" ELSE Units[k + 1]]

\* The base-1024 digits the sizes tried are made of.
DigitValues == {0, 1, 181, 210, 256, 647, 768, 1023}

\* The sizes tried, all below 2^50.
Sizes == [1..5 -> DigitValues]

FormatInit ==
    /\ pc = "format"
    /\ ProgramIdle
    /\ ExtractIdle
    /\ RenderIdle /\ PromptIdle /\ ProviderIdle /\ SanitizeIdle
    /\ n_bytes \in Sizes
    /\ n_out = << >>

FormatApply ==
    /\ pc = "format"
    /\ n_out' = format_file_size(n_bytes)
    /\ pc' = "formatted"
    /\ UNCHANGED <<programVars, extractVars, r_result, r_out, p_frameworks, p_out,
                   c_codes, c_out, s_name, s_out, n_bytes>>

FormatNext == FormatApply

FormatSpec == FormatInit /\ [][FormatNext]_vars

\* ------------------------------------------------------------ properties
\* Every classified dispatch of analyze() so far has a class of S.
AllClassified(S) ==
    /\ log # << >>
    /\ \A i \in 1..Len(log) : log[i].class \in S

\* No KeyboardInterrupt ended analyze().
NotInterrupted == raised # "KeyboardInterrupt"

\* The handles of the documents whose upload returned.
Uploaded == HandlesOf(documents)

\* C1: for every attempt cap N >= 1, when every dispatch of analyze() is
\* classified RateLimited, analyze() goes on dispatching while fewer than N
\* dispatches were made, and once it has ended exactly N dispatches were made
\* and the ResourceExhausted error was raised to the caller, with no payload.
C1_RateLimitedExhausts ==
    (AllClassified({"RateLimited"}) /\ NotInterrupted) =>
        /\ dispatches = Len(log)
        /\ IF pc = "analyze"
           THEN dispatches < max_retries /\ attempt = dispatches /\ raised = ""
           ELSE /\ dispatches = max_retries
                /\ raised = "ResourceExhausted"
                /\ result = << >>

C1_Witness ==
    /\ pc = "analyze_raised"
    /\ AllClassified({"RateLimited"})
    /\ max_retries = 3
    /\ dispatches = 3
    /\ raised = "ResourceExhausted"

\* C2: on every exit of run() after handles were acquired, delete was invoked
\* exactly once for each uploaded handle.
C2_DeleteExactlyOnce ==
    (exit # "" /\ documents # << >>) => \A h \in Uploaded : deletes[h] = 1

\* C3: when run() ends after a KeyboardInterrupt, delete was invoked for every
\* handle acquired so far.
C3_InterruptDeletesAll ==
    exit = "interrupted" => \A h \in Uploaded : deletes[h] >= 1

\* C4: when run() ends by success, by the user declining, by an analysis
\* failure, by a render failure or by an error of a step after the document
\* collection, delete was invoked for every handle of the documents list.
C4_CleanupOnExit ==
    (/\ exit \in {"success", "declined", "analysis_failed", "render_failed", "error"}
     /\ bound)
        => \A h \in Uploaded : deletes[h] >= 1

C4_Witness ==
    /\ exit = "error"
    /\ bound
    /\ Len(documents) = 2
    /\ \A h \in Uploaded : deletes[h] = 1

\* The error of log entry i carries a remote-suggested retry interval.
CarriesInterval(e) == e.has_details /\ e.retry_delay /\ e.seconds >= 0

\* C5: when every attempt of analyze() so far was RateLimited by an error
\* that carries no suggested interval, the delay waited before the k-th retry
\* is base_delay * 2^(k-1): 10, 20, 40, ... seconds.
C5_ExponentialBackoff ==
    (/\ AllClassified({"RateLimited"})
     /\ \A i \in 1..Len(log) : ~CarriesInterval(log[i].err))
        => \A k \in 1..Len(log) :
              /\ k < max_retries => log[k].delay = base_retry_delay * Pow2(k - 1)
              /\ k = 1 /\ k < max_retries => log[k].delay = 10
              /\ k = 2 /\ k < max_retries => log[k].delay = 20
              /\ k = 3 /\ k < max_retries => log[k].delay = 40

C5_Witness ==
    /\ AllClassified({"RateLimited"})
    /\ \A i \in 1..Len(log) : ~CarriesInterval(log[i].err)
    /\ Len(log) = 3
    /\ log[1].delay = 10
    /\ log[2].delay = 20

\* C6: an InvalidRequest outcome ends analyze() at once: it is the last
\* dispatch, no delay follows it and InvalidArgument is raised, also when
\* attempts remain.
C6_InvalidRequestFatal ==
    \A i \in 1..Len(log) :
        log[i].class = "InvalidRequest" =>
            /\ i = Len(log)
            /\ dispatches = i
            /\ log[i].delay = -1
            /\ pc # "analyze"
            /\ raised = "InvalidArgument"
            /\ result = << >>

C6_Witness ==
    /\ Len(log) = 2
    /\ log[2].class = "InvalidRequest"
    /\ max_retries = 3
    /\ pc = "analyze_raised"

\* C7: a TransientOther outcome with attempts remaining is followed by a
\* 5-second delay and the loop goes on to the next dispatch; on the last
\* attempt no delay is taken and the original error is raised.
C7_TransientOther ==
    \A i \in 1..Len(log) :
        log[i].class = "TransientOther" =>
            IF i < max_retries
            THEN /\ log[i].delay = 5
                 /\ (i = Len(log) /\ NotInterrupted) =>
                        pc = "analyze" /\ attempt = i /\ raised = ""
            ELSE /\ i = Len(log)
                 /\ log[i].delay = -1
                 /\ pc # "analyze"
                 /\ raised = "OtherError"
                 /\ result = << >>

C7_Witness ==
    /\ max_retries = 3
    /\ Len(log) = 3
    /\ log[1].class = "TransientOther" /\ log[1].delay = 5
    /\ log[3].class = "TransientOther" /\ log[3].delay = -1
    /\ raised = "OtherError"

\* C8: Success-NoJSON and Success-MalformedJSON are treated alike: with
\* attempts remaining each is followed by the 5-second delay and the loop
\* goes on to a new dispatch.
C8_NoJsonMalformedAlike ==
    \A i \in 1..Len(log) :
        (log[i].class \in {"NoJSON", "MalformedJSON"} /\ i < max_retries) =>
            /\ log[i].delay = 5
            /\ (i = Len(log) /\ NotInterrupted) =>
                   pc = "analyze" /\ attempt = i /\ raised = ""

C8_Witness ==
    /\ max_retries = 3
    /\ Len(log) = 3
    /\ log[1].class = "NoJSON" /\ log[1].delay = 5
    /\ log[2].class = "MalformedJSON" /\ log[2].delay = 5

\* C9: when every attempt of analyze() is Success-NoJSON or
\* Success-MalformedJSON, analyze() ends only after exactly N dispatches, by
\* raising the ValueError of the last attempt, and returns no payload.
C9_NoParsableResponse ==
    (AllClassified({"NoJSON", "MalformedJSON"}) /\ NotInterrupted) =>
        /\ dispatches = Len(log)
        /\ result = << >>
        /\ IF pc = "analyze"
           THEN dispatches < max_retries /\ attempt = dispatches /\ raised = ""
           ELSE /\ dispatches = max_retries
                /\ pc # "report"
                /\ raised = IF log[Len(log)].class = "NoJSON"
                            THEN "ValueError: No valid JSON found"
                            ELSE "ValueError: Invalid JSON response"

C9_Witness ==
    /\ pc = "analyze_raised"
    /\ max_retries = 3
    /\ dispatches = 3
    /\ AllClassified({"NoJSON", "MalformedJSON"})
    /\ log[1].class = "MalformedJSON"
    /\ log[3].class = "NoJSON"

\* The classes analyze() retries.
Retryable == {"RateLimited", "TransientOther", "NoJSON", "MalformedJSON"}

\* C10 (safety part): at most N dispatches are made, and the i-th dispatch,
\* when its outcome is retryable, is followed by another dispatch (or the
\* loop stands at the next iteration) if and only if i < N.
C10_Bounded ==
    /\ dispatches <= max_retries
    /\ Len(log) <= max_retries
    /\ NotInterrupted =>
          \A i \in 1..Len(log) :
              log[i].class \in Retryable =>
                  (i < max_retries <=>
                      \/ i < Len(log)
                      \/ pc = "analyze" /\ attempt = i /\ attempt < max_retries)

\* C10: for any sequence of per-attempt outcomes analyze() makes at most N
\* dispatches, retries a retryable outcome exactly while fewer than N attempts
\* were made, and always ends: it returns a payload or raises.
C10_BoundedRetryTerminates ==
    /\ [] C10_Bounded
    /\ (pc = "analyze") ~> (pc \in {"report", "analyze_raised"} \/ raised = "KeyboardInterrupt")

C10_Witness ==
    /\ pc = "report"
    /\ max_retries = 3
    /\ dispatches = 3
    /\ log[1].class = "RateLimited"
    /\ log[2].class = "NoJSON"
    /\ log[3].class = "Success"

\* C11: analyze() returns a payload only when the dispatch just made was
\* classified Success; the value returned is the object json.loads gives for
\* the brace-bounded substring of that response, whatever its members (an
\* object without any member included); a Success is the last dispatch.
C11_SuccessTerminal ==
    /\ \A i \in 1..Len(log) :
          log[i].class = "Success" =>
              /\ i = Len(log)
              /\ dispatches = i
              /\ pc # "analyze"
              /\ raised = ""
              /\ ~ NoJsonFound(response_text)
              /\ JsonLoads(JsonStr(response_text)).ok
              /\ result = JsonLoads(JsonStr(response_text)).val
    /\ result # << >> => (log # << >> /\ log[Len(log)].class = "Success")

\* A retried attempt is followed by a Success whose object has no member.
C11_Witness ==
    /\ pc = "report"
    /\ Len(log) = 2
    /\ log[1].class = "MalformedJSON"
    /\ log[2].class = "Success"
    /\ response_text = <<"{", "}">>
    /\ result = <<"obj", << >> >>

\* Extraction was applied to x_text.
Extracted == x_out # NotExtracted

HasChar(t, c) == \E k \in 1..Len(t) : t[k] = c

\* The positions of the first "{" and of the last "}" of a text that has them.
FirstOpen(t) == CHOOSE i \in 1..Len(t) : t[i] = "{" /\ \A k \in 1..(i - 1) : t[k] # "{"
LastClose(t) == CHOOSE j \in 1..Len(t) : t[j] = "}" /\ \A k \in (j + 1)..Len(t) : t[k] # "}"

\* The first "{" of t comes before its last "}".
Spans(t) == HasChar(t, "{") /\ HasChar(t, "}") /\ FirstOpen(t) < LastClose(t)

\* The characters of t from its first "{" to its last "}", both included.
BraceSpan(t) == SubSeq(t, FirstOpen(t), LastClose(t))

\* C12: extraction parses exactly the characters from the first "{" to the
\* last "}" of the text, both included; so the serialized form of an object,
\* after commentary without "{" and before commentary without "}", yields
\* that object.
C12_ParsesBraceSpan ==
    Extracted =>
        /\ Spans(x_text) =>
              LET r == JsonLoads(BraceSpan(x_text)) IN
              /\ x_out.class = (IF r.ok THEN "Success" ELSE "MalformedJSON")
              /\ x_out.val = r.val
        /\ x_obj # << >> => x_out = [class |-> "Success", val |-> x_obj]

\* An object of the requested shape with a brace pair inside a string, with
\* commentary (a "}" before it, a "{" after it) on both sides.
C12_Witness ==
    /\ Extracted
    /\ x_obj \in AnalysisResults
    /\ x_obj[2][4][2] = Str(<<"}", "{">>)
    /\ x_text = <<"}", "x">> \o Serialize(x_obj) \o <<"x", "{">>
    /\ x_out.val = x_obj

\* C13: a text without any "{" (the empty text included) is classified
\* NoJSON, and extraction gives no other outcome for it.
C13_NoOpenBraceIsNoJson ==
    (Extracted /\ ~ HasChar(x_text, "{")) => x_out = [class |-> "NoJSON", val |-> << >>]

\* A text with a closing brace but no opening one.
C13_Witness ==
    /\ x_text = <<"a", "}">>
    /\ x_out.class = "NoJSON"

\* C14: a text is classified NoJSON whenever a brace is absent or the last
\* "}" comes before the first "{"; it is never classified MalformedJSON.
C14_EmptySpanIsNoJson ==
    (Extracted /\ ~ Spans(x_text)) => x_out.class = "NoJSON"

\* C15: when the first "{" comes before the last "}" and the characters
\* from one to the other are not valid JSON, the text is classified
\* MalformedJSON.
C15_BraceBoundedNonJson ==
    (Extracted /\ Spans(x_text) /\ ~ JsonLoads(BraceSpan(x_text)).ok)
        => x_out = [class |-> "MalformedJSON", val |-> << >>]

\* A brace-bounded substring that is not JSON.
C15_Witness ==
    /\ x_text = <<"{", "a", "}">>
    /\ x_out.class = "MalformedJSON"

\* C16: the serialized form of an object of the AnalysisResult shape, with
\* no text around it, is classified Success and yields an equal object.
C16_RoundTrip ==
    (Extracted /\ x_obj \in AnalysisResults /\ x_text = Serialize(x_obj))
        => x_out = [class |-> "Success", val |-> x_obj]

\* Every list has an entry and the strings hold braces and an escaped quote.
C16_Witness ==
    /\ Extracted
    /\ x_obj \in AnalysisResults
    /\ x_text = Serialize(x_obj)
    /\ \A k \in 1..3 : x_obj[2][k][2][2] # << >>
    /\ x_obj[2][1][2][2][1][2][1][2] = Str(<<"b", "q">>)
    /\ x_obj[2][4][2] = Str(<<"}", "{">>)
    /\ x_out.val = x_obj

\* upload_file() is running.
Uploading == pc \in {"upload", "poll"}

\* C17: every retry of upload_file() was preceded by the exponential backoff
\* (suggested or configured base delay, times 2^attempt); at most N
\* transmissions are made; when the rate-limit error leaves upload_file(),
\* exactly N transmissions and N-1 backoffs were made.
C17_UploadBackoff ==
    /\ Len(u_sleeps) = u_attempt
    /\ \A k \in 1..Len(u_sleeps) :
          \E e \in RateLimitErrors :
              u_sleeps[k] = EffectiveBase(base_retry_delay, e) * Pow2(k - 1)
    /\ u_calls <= max_retries
    /\ u_raised = "ResourceExhausted" =>
          /\ u_calls = max_retries
          /\ Len(u_sleeps) = max_retries - 1
          /\ ~ Uploading

C17_Witness ==
    /\ max_retries = 3
    /\ u_raised = "ResourceExhausted"
    /\ u_calls = 3
    /\ u_sleeps = <<10, 20>>

\* C18: when the file is observed FAILED, the next step of upload_file()
\* raises the error: no transmission, no backoff, no next attempt, and no
\* document is recorded.
C18_FailedSurfaced ==
    [][(pc = "poll" /\ u_state = "FAILED") =>
          /\ u_raised' = "ValueError: File upload failed"
          /\ ~ Uploading'
          /\ u_calls' = u_calls
          /\ transmitted' = transmitted
          /\ u_sleeps' = u_sleeps
          /\ u_attempt' = u_attempt
          /\ documents' = documents]_vars

\* The first attempt of three ended with FAILED.
C18_Witness ==
    /\ u_raised = "ValueError: File upload failed"
    /\ max_retries = 3
    /\ u_attempt = 0
    /\ u_calls = 1
    /\ u_sleeps = << >>
    /\ u_file \notin Uploaded
    /\ pc = "select"

\* C19: a handle is returned only for the file of the current call, last
\* observed neither PROCESSING nor FAILED; while the file is PROCESSING the
\* call polls again or raises; and upload_file() always ends.
C19_PollsUntilTerminal ==
    /\ [][documents' # documents =>
             /\ pc = "poll"
             /\ u_state \notin {"PROCESSING", "FAILED"}
             /\ documents' = Append(documents, u_file)]_vars
    /\ [][(pc = "poll" /\ u_state = "PROCESSING" /\ pc' = "poll") =>
             (u_polls' = u_polls + 1 /\ u_file' = u_file)]_vars
    /\ Uploading ~> ~ Uploading

\* The file was polled before it was seen ACTIVE and its handle returned.
C19_Witness ==
    /\ pc = "more"
    /\ u_polls >= 1
    /\ u_state = "ACTIVE"
    /\ u_file \in Uploaded

\* C20: when analyze() is reached the documents list is not empty and every
\* document in it carries the handle of a transmitted file.
C20_DocumentsHaveHandles ==
    (pc = "analyze" \/ dispatches > 0) =>
        /\ bound
        /\ documents # << >>
        /\ \A i \in 1..Len(documents) : documents[i] \in 1..transmitted

\* Two documents reach analyze(); another transmission gave no document.
C20_Witness ==
    /\ pc = "analyze"
    /\ transmitted = 3
    /\ documents = <<1, 3>>

\* C21: cleanup_files() calls delete_uploaded_file for every document, also
\* after a deletion that failed; a call returns True exactly when the remote
\* file is gone by it, and False leaves the file in the store.
C21_DeleteBestEffort ==
    cleanups > 0 =>
        /\ Len(delete_returns) = Len(documents)
        /\ \A h \in Uploaded : deletes[h] = cleanups
        /\ \A i \in 1..Len(documents) :
              /\ delete_returns[i] => documents[i] \notin remote
              /\ (~ delete_returns[i] /\ cleanups = 1) => documents[i] \in remote

\* The deletion of the first document failed, the second was still deleted.
C21_Witness ==
    /\ cleanups = 1
    /\ Len(documents) = 2
    /\ delete_returns = <<FALSE, TRUE>>
    /\ documents[1] \in remote
    /\ documents[2] \notin remote
    /\ exit # ""

\* C22: verify_uploads() looks up every document, also after a lookup that
\* failed (get_file_info then gives the error-tagged result); it raises
\* nothing, and get_documents() returns the documents to run().
C22_InfoNeverRaises ==
    /\ [](/\ pc = "return" =>
               /\ Len(file_infos) = Len(documents)
               /\ pending = ""
               /\ exit = ""
          /\ file_infos # << >> => pc = "return")
    /\ [][pc = "return" =>
             (pc' = "frameworks" /\ bound' /\ documents' = documents /\ pending' = "")]_vars

\* The lookup of the first document failed, the second was still looked up.
C22_Witness ==
    /\ pc = "return"
    /\ file_infos = <<"error", "info">>

\* C23: generate_report() does not fail for any payload with missing
\* fields, a list entry that lacks one of its fields included.
C23_AllFieldsOptional ==
    pc = "rendered" => (r_out.raised = "" /\ r_out.artifacts = 1)

\* Every entry of a list has the fields of d.
AllHave(list, keys) ==
    \A i \in 1..Len(list) : \A k \in 1..Len(keys) : keys[k] \in DOMAIN list[i]

\* The entries of the lists the payload has are complete (the
\* recommendations of a policy apart).
EntriesComplete(res) ==
    /\ AllHave(Get(res, "aiReviewFramework", << >>), FrameworkReads)
    /\ AllHave(Get(res, "planByPlanReview", << >>), PlanReads)
    /\ AllHave(Get(res, "policyCompatibilitySummary", << >>), SummaryReads)

C25_FrameworkTruncation ==
    pc = "prompted" =>
        /\ Len(p_out) = Len(p_frameworks)
        /\ \A i \in 1..Len(p_frameworks) :
              LET c == p_frameworks[i][2]
                  e == p_out[i][2]
              IN /\ p_out[i][1] = p_frameworks[i][1]
                 /\ Len(c) <= 1000 => e = c
                 /\ Len(c) > 1000 =>
                       /\ Len(e) = 1000 + Len(TruncationMarker)
                       /\ \A k \in 1..1000 : e[k] = c[k]
                       /\ \A k \in 1..Len(TruncationMarker) : e[1000 + k] = TruncationMarker[k]

\* An entry of exactly 1000 characters, then one of 1001.
C25_Witness ==
    /\ pc = "prompted"
    /\ Len(p_frameworks) = 2
    /\ Len(p_frameworks[1][2]) = 1000
    /\ Len(p_frameworks[2][2]) = 1001
    /\ Len(p_out[1][2]) = 1000
    /\ Len(p_out[2][2]) = 1002

\* C26: the mapping returned has exactly the requested codes as keys; a
\* code with stored content maps to it, every other code (PPG of the catalog
\* included) to the placeholder text for that code.
C26_ProviderNeverFails ==
    pc = "fetched" =>
        /\ DOMAIN c_out = {c_codes[i] : i \in 1..Len(c_codes)}
        /\ \A f \in DOMAIN c_out :
              c_out[f] = IF f \in {"NPPF", "PDR", "LDF", "LP", "BRE", "SPD"}
                         THEN <<"content", f>>
                         ELSE <<"Framework content for", f>>

\* A catalog code without content and a code outside the catalog.
C26_Witness ==
    /\ pc = "fetched"
    /\ c_codes = <<"PPG", "XYZ">>
    /\ c_out["PPG"] = <<"Framework content for", "PPG">>
    /\ c_out["XYZ"] = <<"Framework content for", "XYZ">>

\* The file name with an underscore at the place of each of < > : " / \ | ? *
Underscored(t) ==
    << >> \o [i \in 1..Len(t) |->
        IF t[i] \in {"<", ">", ":", "\"", "/", "\\", "|", "?", "*"} THEN "_" ELSE t[i]]

\* The length of the part before the final extension: the final extension
\* starts at the last dot that has a character other than a dot before it.
StemLen(t) ==
    LET D == {k \in 1..Len(t) : t[k] = "." /\ \E j \in 1..(k - 1) : t[j] # "."}
    IN IF D = {} THEN Len(t) ELSE (CHOOSE k \in D : \A j \in D : j <= k) - 1

\* C27: the result is the file name with each of < > : " / \ | ? * replaced
\* by one underscore, of which the part before the final extension is cut to
\* its first 200 characters when longer, the extension following unchanged;
\* none of those characters is left.
C27_SanitizeFilename ==
    pc = "sanitized" =>
        LET u == Underscored(s_name)
            n == StemLen(u)
            kept == IF n > 200 THEN 200 ELSE n
        IN /\ s_out = SubSeq(u, 1, kept) \o SubSeq(u, n + 1, Len(u))
           /\ \A i \in 1..Len(s_out) :
                 s_out[i] \notin {"<", ">", ":", "\"", "/", "\\", "|", "?", "*"}
           /\ Len(s_name) <= 200 => s_out = u

\* A name with an invalid character at each end, a part before the
\* final extension of 203 characters and an extension.
C27_Witness ==
    /\ pc = "sanitized"
    /\ Len(s_name) = 205
    /\ s_name[1] = "<" /\ s_name[205] = "?"
    /\ s_name[202] = "." /\ s_name[204] = "."
    /\ Len(s_out) = 202
    /\ s_out[1] = "_" /\ s_out[201] = "." /\ s_out[202] = "_"

\* The number of divisions by 1024 after which the size is below 1024, four
\* at most.
Divisions(ds) ==
    LET N == {i \in 1..Len(ds) : ds[i] # 0}
        top == IF N = {} THEN 1 ELSE CHOOSE i \in N : \A j \in N : j <= i
    IN IF top > 5 THEN 4 ELSE top - 1

\* C28: the unit is the first of B, KB, MB, GB in which the size is below
\* 1024 and TB when there is none; the number shown has one decimal and is
\* the size in that unit to within half a tenth (the size in that unit lies
\* between its two leading base-1024 digits and one 1024th more); 1234 is
\* shown as 1.2 KB.
C28_FormatFileSize ==
    pc = "formatted" =>
        LET k == Divisions(n_bytes)
            W == Value(SubSeq(n_bytes, k + 1, Len(n_bytes)))
            d == IF k = 0 THEN 0 ELSE n_bytes[k]
            T == 10 * n_out.whole + n_out.tenth
        IN /\ n_out.unit = <<"B", "KB", "MB", "GB", "TB">>[k + 1]
           /\ n_out.unit # "TB" => W < 1024
           /\ n_out.tenth \in 0..9
           /\ 2048 * T >= 20 * (1024 * W + d) - 1024
           /\ 2048 * T <= 20 * (1024 * W + d + 1) + 1024
           /\ k = 0 => n_out.tenth = 0 /\ n_out.whole = n_bytes[1]
           /\ n_bytes = <<210, 1, 0, 0, 0>> => n_out = [whole |-> 1, tenth |-> 2, unit |-> "KB"]

\* 1234567 bytes are shown as 1.2 MB.
C28_Witness ==
    /\ pc = "formatted"
    /\ n_bytes = <<647, 181, 1, 0, 0>>
    /\ n_out = [whole |-> 1, tenth |-> 2, unit |-> "MB"]

\* C29: the delay waited after a RateLimited attempt of analyze() (the
\* i-th dispatch is attempt i-1) is s * 2^attempt when the error's details
\* name a retry_delay of s seconds, and the configured 10 * 2^attempt when
\* the error has no details, or details without a retry_delay.
C29_SuggestedInterval ==
    \A i \in 1..Len(log) :
        (log[i].class = "RateLimited" /\ log[i].delay # -1) =>
            LET e == log[i].err
            IN /\ (e.has_details /\ e.retry_delay /\ e.seconds >= 0)
                     => log[i].delay = e.seconds * Pow2(i - 1)
               /\ (~ e.has_details \/ ~ e.retry_delay \/ e.seconds < 0)
                     => log[i].delay = 10 * Pow2(i - 1)

\* A first wait on the configured base and a second one on a suggested
\* interval of 7 seconds.
C29_Witness ==
    /\ Len(log) >= 2
    /\ log[1].class = "RateLimited" /\ ~ log[1].err.has_details /\ log[1].delay = 10
    /\ log[2].class = "RateLimited"
    /\ log[2].err = [has_details |-> TRUE, retry_delay |-> TRUE, seconds |-> 7]
    /\ log[2].delay = 14

\* C30: every remote file a transmission created has its handle in the
\* documents list, the file upload_file() is still working on excepted, and
\* once the run has ended every one of them was deleted at cleanup or its
\* deletion was tried and failed.
C30_EveryRemoteFileRecorded ==
    /\ \A h \in 1..transmitted :
          h \in Uploaded \/ (Uploading /\ h = u_file)
    /\ exit # "" => \A h \in remote : deletes[h] >= 1

\* The attempts of analyze() that were followed by a delay.
Delayed == {i \in 1..Len(log) : log[i].delay # -1}

\* C31: no delay follows the N-th attempt of analyze(), whatever its
\* classification, and at most N-1 attempts are followed by one; once the
\* N-th attempt has failed its error is raised.  upload_file() makes at most
\* N-1 backoffs, and none after its N-th transmission.
C31_NoWaitAfterFinalAttempt ==
    /\ \A i \in Delayed : i < max_retries
    /\ Cardinality(Delayed) <= max_retries - 1
    /\ (Len(log) = max_retries /\ log[max_retries].class # "Success") =>
          /\ log[max_retries].delay = -1
          /\ pc # "analyze"
          /\ raised # ""
    /\ Len(u_sleeps) <= max_retries - 1
    /\ u_calls = max_retries => Len(u_sleeps) = max_retries - 1

\* Three attempts of different classifications: two delays, none after the
\* third.
C31_Witness ==
    /\ max_retries = 3
    /\ pc = "analyze_raised"
    /\ Len(log) = 3
    /\ log[1].class = "RateLimited" /\ log[1].delay = 10
    /\ log[2].class = "NoJSON" /\ log[2].delay = 5
    /\ log[3].class = "TransientOther" /\ log[3].delay = -1
    /\ raised = "OtherError"

\* The number of RateLimited outcomes among the first n attempts.
RateLimitsBefore(n) == Cardinality({j \in 1..n : log[j].class = "RateLimited"})

\* C32: the backoff after a RateLimited outcome of the i-th attempt is the
\* base delay times 2^(i-1), the attempts of every classification counted;
\* when an earlier attempt was not RateLimited this is more than the base
\* delay times 2^(number of rate limits before).
C32_ExponentIsAttemptIndex ==
    \A i \in Delayed :
        log[i].class = "RateLimited" =>
            LET base == IF CarriesInterval(log[i].err) THEN log[i].err.seconds
                        ELSE base_retry_delay
            IN /\ log[i].delay = base * Pow2(i - 1)
               /\ RateLimitsBefore(i - 1) < i - 1 =>
                     log[i].delay > base * Pow2(RateLimitsBefore(i - 1))

\* A first rate limit, at attempt index 1 after a TransientOther attempt,
\* waits 10 * 2^1 seconds.
C32_Witness ==
    /\ Len(log) >= 2
    /\ log[1].class = "TransientOther"
    /\ log[2].class = "RateLimited" /\ ~ CarriesInterval(log[2].err)
    /\ log[2].delay = 20

\* The error analyze() raises for a final attempt of classification c.
FatalOutcome(c) ==
    IF c = "RateLimited" THEN "ResourceExhausted"
    ELSE IF c = "NoJSON" THEN "ValueError: No valid JSON found"
    ELSE IF c = "MalformedJSON" THEN "ValueError: Invalid JSON response"
    ELSE IF c = "TransientOther" THEN "OtherError"
    ELSE "InvalidArgument"

\* C33: when analyze() has made its N attempts without a Success, the error
\* it raises is the one of the classification of the N-th attempt, whatever
\* the earlier attempts were.
C33_FinalAttemptDecides ==
    (/\ NotInterrupted
     /\ Len(log) = max_retries
     /\ log[max_retries].class # "Success")
        => /\ pc \in {"analyze_raised", "done"}
           /\ raised = FatalOutcome(log[max_retries].class)

\* RateLimited, RateLimited, NoJSON ends as the no-parsable-response error.
C33_Witness ==
    /\ max_retries = 3
    /\ Len(log) = 3
    /\ log[1].class = "RateLimited"
    /\ log[2].class = "RateLimited"
    /\ log[3].class = "NoJSON"
    /\ raised = "ValueError: No valid JSON found"

\* C34: while analyze() runs, and when it has ended before run() goes on,
\* cleanup_files was not called, no delete was made for any handle, and the
\* files of the request are still in the remote store.
C34_NoDeleteBeforeAnalysisEnds ==
    pc \in {"analyze", "analyze_raised", "report"} =>
        /\ cleanups = 0
        /\ \A h \in Handles : deletes[h] = 0
        /\ delete_returns = << >>
        /\ Uploaded \subseteq remote

\* The second dispatch, a retry, is about to be made for two documents.
C34_Witness ==
    /\ pc = "analyze"
    /\ dispatches = 1 /\ attempt = 1
    /\ Len(documents) = 2
    /\ \A h \in Handles : deletes[h] = 0

\* C35: when the confirmation is declined run() ends from the confirmation
\* itself (the fetch, analyze() and the report are not entered): no dispatch
\* was made, no report exists, and cleanup_files was called once, with one
\* delete call for each document.
C35_DeclineEndsWithCleanup ==
    /\ [](exit = "declined" =>
            /\ pc = "done"
            /\ dispatches = 0 /\ log = << >> /\ result = << >>
            /\ report = "none"
            /\ cleanups = 1
            /\ Len(delete_returns) = Len(documents)
            /\ \A h \in Handles : deletes[h] = Occurrences(documents, h))
    /\ [][(exit = "" /\ exit' = "declined") => pc = "confirm"]_vars

\* Declined with two documents, both deleted.
C35_Witness ==
    /\ exit = "declined"
    /\ Len(documents) = 2
    /\ \A h \in Uploaded : deletes[h] = 1 /\ h \notin remote

\* C36: a report exists, written or failed, only when analyze() returned the
\* payload of a Success; when analyze() raised the error of a fatal outcome
\* no report is made, and run() ends by returning after one cleanup_files
\* with a delete call for each document, no exception in flight.
C36_ReportOnlyAfterSuccess ==
    /\ (report # "none" \/ pc \in {"report", "open", "finally"}) =>
          /\ log # << >> /\ log[Len(log)].class = "Success"
          /\ result # << >>
          /\ raised = ""
    /\ raised \notin {"", "KeyboardInterrupt"} =>
          /\ report = "none"
          /\ pc \in {"analyze_raised", "done"}
          /\ pending = ""
          /\ pc = "done" =>
                /\ exit = "analysis_failed"
                /\ cleanups = 1
                /\ \A h \in Handles : deletes[h] = Occurrences(documents, h)

\* analyze() raised InvalidArgument with two documents uploaded; run()
\* returned after deleting both.
C36_Witness ==
    /\ exit = "analysis_failed"
    /\ raised = "InvalidArgument"
    /\ report = "none"
    /\ Len(documents) = 2
    /\ \A h \in Uploaded : deletes[h] = 1

\* C37: when upload_file() raises, the documents list stays as it is and the
\* loop is at the file dialog again; a document is recorded only when
\* upload_file() returns the handle of a file that is not FAILED, at the end
\* of the list; get_documents() returns a list that is not empty, in the
\* order of the uploads.
C37_FailedUploadPerFile ==
    /\ [](pc = "return" => documents # << >>)
    /\ [](\A i, j \in 1..Len(documents) : i < j => documents[i] < documents[j])
    /\ [][(u_raised = "" /\ u_raised' # "") =>
             (documents' = documents /\ pc' = "select")]_vars
    /\ [][documents' # documents =>
             /\ pc = "poll" /\ u_state = "ACTIVE" /\ u_raised = ""
             /\ documents' = Append(documents, u_file)]_vars

\* The first and the third upload returned, the second raised.
C37_Witness ==
    /\ pc = "return"
    /\ documents = <<1, 3>>
    /\ transmitted = 3

====
